---- MODULE Spec2Model ----
(***************************************************************************)
(* Market-data synchronization engine of MyStockOverlay.                   *)
(*                                                                         *)
(* The module holds several state machines over one set of variables; each *)
(* specification moves its own component and leaves the others at rest:    *)
(*   SpecQueue  KisRateLimiter (kisRateLimiter.ts)                         *)
(*              SpecQueueLive adds the fairness of its timers and tasks    *)
(*   SpecToken  getKisAccessToken / getKisVirtualAccessToken               *)
(*   SpecCache  ChartCacheManager (storage.ts); SpecExpiry, SpecMerge and  *)
(*              SpecResume apply one of its functions to drawn inputs      *)
(*   SpecChart  forwardFillMinuteData, resampleTo10Minutes (chartUtils.ts) *)
(*   SpecBackfill  fetchIntradayChart (kisApi.ts, kisVirtualApi.ts)        *)
(*   SpecPrice  fetchCurrentPrice (kisApi.ts, kisVirtualApi.ts)            *)
(*   SpecClock  getMarketStatus (market.ts)                                *)
(*   SpecWs     WsManager (connectWs, syncSubscriptions, socket handlers); *)
(*              SpecSub and SpecCtl run it from other starting states      *)
(* JavaScript runs every callback to completion, so one action is one      *)
(* callback (or one stretch of an async function between two awaits).      *)
(***************************************************************************)
EXTENDS Integers, Sequences, FiniteSets, TLC

VARIABLES
    \* ---- wall clock (Date.now(), milliseconds)
    now,
    \* ---- KisRateLimiter
    queue,            \* this.queue: waiting tasks, oldest first
    isRunning,        \* this.isRunning
    minIntervalMs,    \* this.minIntervalMs
    workerAt,         \* where processQueue is suspended: idle / task / delay
    curTask,          \* the task processQueue awaits
    delayUntil,       \* due time of the pacing setTimeout
    taskStatus,       \* per task: new / queued / running / ok / failed
    executing,        \* tasks whose promise is pending (invoked, not settled)
    startLog,         \* history: <<[task, at]>> in order of invocation
    intervalChanged,  \* history: number of setInterval calls that changed the value
    \* ---- token lifecycle (kisApi.ts, kisVirtualApi.ts, KisAuthStorage)
    tokenPromise,     \* per mode: the pending issuance (its queue task) or NoTask
    auth,             \* per mode: the stored credential [token, tokenTime] or NoAuth
    issueMode,        \* per task: the mode whose issuance request it carries
    issueResp,        \* per task: the response whose body is being read
    issueResult,      \* per task: Pending, Threw or the token the issuance returned
    callMode,         \* per getToken call: its mode
    callState,        \* per getToken call: none / waiting / returned / threw
    callJoined,       \* per getToken call: the issuance it awaits (NoTask: none)
    callResult,       \* per getToken call: the token it returned
    otherWrites,      \* number of credentials stored by other windows so far
    issueError,       \* per issuance: what the Error it threw carries
    \* ---- ChartCacheManager (localStorage KIS_CHART_CACHE) and its clock
    store,            \* per symbol: the cache entry, or NoEntry
    todayIdx,         \* getTodayString(): position of today in Calendar
    hourNow,          \* time of day of the clock, HHMM00
    lastOp,           \* history: the last cache operation and what it returned
    forced,           \* history: per symbol, forced re-backfills returned today
    probe,            \* the arguments of the one call a specification of a
                      \* single function makes, and what the call did; for
                      \* getCachedItems: the day the entry was last updated,
                      \* the day of the read, and whether it was dropped
    \* ---- WsManager (refs of the component, Config in localStorage, sockets)
    cfg,              \* Config.get() with Config.getActiveKeys()
    cfgChanges,       \* number of settings changes so far
    lastSignature,    \* syncSubscriptions.lastSignature ("" while undefined)
    wsRef,            \* wsRef.current: a socket, or NoSocket
    approvalKeyRef,   \* approvalKeyRef.current: the credentials it was issued for
    subscribedRefs,   \* subscribedRefs.current
    isConnectingRef,  \* isConnectingRef.current
    fallbackTimersRef,\* fallbackTimersRef.current: per symbol "none" / "rest" / "yahoo"
    chartTimersRef,   \* chartTimersRef.current: per symbol, has a chart timer
    timeSinceLastUpdate, \* per symbol: Date.now() - lastUpdateTimesRef.get(symbol)
    sock,             \* per connectWs call: awaitKey / connecting / open / ...
    sockFor,          \* per connectWs call: the mode and keys it read
    fbRunning,        \* per symbol: fallback intervals created and not cleared
    chRunning,        \* per symbol: chart intervals created and not cleared
    framed,           \* history: symbols with a frame since the last tick while
                      \* their fallback timer was running
    prevFingerprint,  \* history: (mode, keys, enable flag) read by the last tick
    addedLive,        \* history: symbols added to the active set while CONNECTED
                      \* since the last tick
    keyAtDisconnect,  \* history: approvalKeyRef holds the key that an open socket
                      \* was using when its error or close event fired
    sentOn,           \* history: per subscribed symbol, the socket its subscribe
                      \* messages were sent on
    lastMessage,      \* history: what socket.onmessage, when it has just run,
                      \* invoked as error events and wrote to chartDataRefs
    lastTick          \* history: what the tick that has just run found and did

queueVars == <<queue, isRunning, minIntervalMs, workerAt, curTask, delayUntil,
               taskStatus, executing, startLog, intervalChanged>>

tokenVars == <<tokenPromise, auth, issueMode, issueResp, issueResult, callMode,
               callState, callJoined, callResult, otherWrites, issueError>>

cacheVars == <<store, todayIdx, hourNow, lastOp, forced, probe>>

wsVars == <<cfg, cfgChanges, lastSignature, wsRef, approvalKeyRef, subscribedRefs,
            isConnectingRef, fallbackTimersRef, chartTimersRef, timeSinceLastUpdate,
            sock, sockFor, fbRunning, chRunning, framed, prevFingerprint,
            keyAtDisconnect, addedLive, sentOn, lastMessage,
            lastTick>>

vars == <<now, queueVars, tokenVars, cacheVars, wsVars>>

\* what the actions of one component leave alone
outsideQueue == <<tokenVars, cacheVars, wsVars>>
outsideToken == <<cacheVars, wsVars>>
outsideCache == <<now, queueVars, tokenVars, wsVars>>
outsideWs == <<now, queueVars, tokenVars, cacheVars>>

(***************************************************************************)
(* Bounds and program constants                                            *)
(***************************************************************************)
MaxTasks == 3
MaxNow == 700
ClockStep == 100
MaxIntervalChanges == 1
MaxCalls == 2
MaxIssuances == 2
MaxOtherWrites == 1
MaxNewItems == 2
MaxStored == 3
FirstDay == 25
LastDay == 70
MaxProbeAge == 8
MaxMinuteData == 5
MaxPages == 3
MaxRefreshes == 1
MaxPriceQueries == 3
MaxTokenNow == 43200000
TokenClockStep == 21600000
MaxSockets == 3
MaxConfigChanges == 2
LateTickMs == 31000
FreshDetailMs == 1000

TickMs == 1000
StaleAfterMs == 30000

PaperIntervalMs == 600
LiveIntervalMs == 100

Tasks == 1..MaxTasks
NoTask == 0

Modes == {"live", "paper"}
Calls == 1..MaxCalls
NoAuth == [token |-> -1, tokenTime |-> -1]
Pending == -2
Threw == -1
StoredToken == 0      \* a token this page did not issue (earlier run, other window)
NoError == [status |-> "", code |-> ""]

\* the token component at rest, for the specifications that do not move it
TokenAtRest ==
    /\ tokenPromise = [m \in Modes |-> NoTask]
    /\ auth = [m \in Modes |-> NoAuth]
    /\ issueMode = [t \in Tasks |-> "none"]
    /\ issueResp = [t \in Tasks |-> "none"]
    /\ issueResult = [t \in Tasks |-> Pending]
    /\ callMode = [c \in Calls |-> "none"]
    /\ callState = [c \in Calls |-> "none"]
    /\ callJoined = [c \in Calls |-> NoTask]
    /\ callResult = [c \in Calls |-> Pending]
    /\ otherWrites = 0
    /\ issueError = [t \in Tasks |-> NoError]

\* chart cache: symbols, calendar days (YYYYMMDD), times of day (HHMMSS)
CacheSymbols == {"005930"}
Calendar == <<20240131, 20240201>>
Hours == {90000, 110000}
HourNows == {90000, 120000}
Prices == {0, 1, 2}
NoKey == [date |-> 0, hour |-> 0]
NoEntry == [present |-> FALSE, lastUpdated |-> 0, items |-> <<>>, basePrice |-> 0,
            lastGapCleared |-> 0]
NoOp == [op |-> "none", sym |-> "", mergeRet |-> <<>>, remerge |-> FALSE,
         reordered |-> FALSE, resumeRet |-> NoKey, already |-> FALSE,
         forcedRet |-> FALSE]

NoProbe == [updatedDay |-> 0, todayDay |-> 0, state |-> "none"]

CacheAtRest ==
    /\ probe = NoProbe
    /\ store = [s \in CacheSymbols |-> NoEntry]
    /\ todayIdx = 1
    /\ hourNow = 90000
    /\ lastOp = NoOp
    /\ forced = [s \in CacheSymbols |-> 0]

\* WsManager: symbols, keys, sockets, timers, the reconciliation clock
WsSymbols == {"005930", "0001"}
OrdinarySymbols == {"005930"}
Credentials ==
    {[appKey |-> "", appSecret |-> ""],
     [appKey |-> "PS-", appSecret |-> "sk"],
     [appKey |-> "PS", appSecret |-> "-sk"]}
Sockets == 1..MaxSockets
NoSocket == 0
NoApprovalKey == [isVirtual |-> FALSE, appKey |-> "", appSecret |-> ""]
NoUpdate == -1        \* lastUpdateTimesRef has no entry for the symbol
NoFingerprint == <<>>
NoMessage == [errors |-> {}, chartWrites |-> {}]
NoTick == [ran |-> FALSE, changed |-> FALSE, reset |-> FALSE, kisEnabled |-> FALSE,
           stale |-> {}, started |-> {}, owed |-> {}, fresh |-> {},
           timersBefore |-> {}, resetCleared |-> {}, liveBefore |-> {},
           approvalBefore |-> FALSE, canSync |-> FALSE, subscribedBefore |-> {},
           sent |-> {}, addedLive |-> {}]

InitialConfig ==
    [isVirtual |-> FALSE, appKey |-> "PS-", appSecret |-> "sk", kisEnabled |-> TRUE,
     yahoo |-> TRUE, activeSymbols |-> OrdinarySymbols]

\* the refs of the component after mount
WsRefsAtRest ==
    /\ cfgChanges = 0
    /\ lastSignature = ""
    /\ wsRef = NoSocket
    /\ approvalKeyRef = NoApprovalKey
    /\ subscribedRefs = {}
    /\ isConnectingRef = FALSE
    /\ fallbackTimersRef = [s \in WsSymbols |-> "none"]
    /\ chartTimersRef = [s \in WsSymbols |-> FALSE]
    /\ timeSinceLastUpdate = [s \in WsSymbols |-> NoUpdate]
    /\ sock = [i \in Sockets |-> "unused"]
    /\ sockFor = [i \in Sockets |-> NoApprovalKey]
    /\ fbRunning = [s \in WsSymbols |-> 0]
    /\ chRunning = [s \in WsSymbols |-> 0]
    /\ framed = {}
    /\ prevFingerprint = NoFingerprint
    /\ keyAtDisconnect = FALSE
    /\ addedLive = {}
    /\ sentOn = [s \in WsSymbols |-> NoSocket]
    /\ lastMessage = NoMessage
    /\ lastTick = NoTick

WsAtRest == cfg = InitialConfig /\ WsRefsAtRest

(***************************************************************************)
(* Wall clock                                                              *)
(***************************************************************************)
AdvanceClock ==
    /\ now < MaxNow
    /\ now' = now + ClockStep
    /\ UNCHANGED <<queueVars, outsideQueue>>

(***************************************************************************)
(* KisRateLimiter                                                          *)
(***************************************************************************)
InitQueue ==
    /\ queue = <<>>
    /\ isRunning = FALSE
    /\ minIntervalMs \in {PaperIntervalMs, LiveIntervalMs}
    /\ workerAt = "idle"
    /\ curTask = NoTask
    /\ delayUntil = 0
    /\ taskStatus = [t \in Tasks |-> "new"]
    /\ executing = {}
    /\ startLog = <<>>
    /\ intervalChanged = 0

\* enqueue, line 29: a worker loop is started only when none is running
MutStartWhenRunning == isRunning
MutAlwaysStartWorker == TRUE
ShouldStartWorker == ~isRunning

\* line 36: this.queue.shift(), the entry taken and the queue it leaves
MutPeek(q) == [taken |-> Head(q), left |-> q]
MutPop(q) == [taken |-> q[Len(q)], left |-> SubSeq(q, 1, Len(q) - 1)]
Shift(q) == [taken |-> Head(q), left |-> Tail(q)]

\* processQueue, lines 35-38: shift the head and invoke it
InvokeHead(q, status) ==
    /\ queue' = Shift(q).left
    /\ curTask' = Shift(q).taken
    /\ workerAt' = "task"
    /\ executing' = executing \cup {Shift(q).taken}
    /\ taskStatus' = [status EXCEPT ![Shift(q).taken] = "running"]
    /\ startLog' = Append(startLog, [task |-> Shift(q).taken, at |-> now])

\* enqueue(task): push, and run processQueue up to its first await
EnqueueEffect(t) ==
    LET q1 == Append(queue, t)
        st1 == [taskStatus EXCEPT ![t] = "queued"]
    IN  IF ShouldStartWorker
        THEN /\ isRunning' = TRUE
             /\ InvokeHead(q1, st1)
             /\ UNCHANGED <<minIntervalMs, delayUntil, intervalChanged>>
        ELSE /\ queue' = q1
             /\ taskStatus' = st1
             /\ UNCHANGED <<isRunning, minIntervalMs, workerAt, curTask, delayUntil,
                            executing, startLog, intervalChanged>>

\* tasks are interchangeable: they are handed out in the order of their ids
Enqueue(t) ==
    /\ taskStatus[t] = "new"
    /\ \A u \in Tasks : u < t => taskStatus[u] # "new"
    /\ EnqueueEffect(t)
    /\ UNCHANGED <<now, outsideQueue>>

\* line 45: setTimeout(r, this.minIntervalMs), the value read when the wait begins
MutLiveDelay == LiveIntervalMs
TimerDelay == minIntervalMs

\* the awaited task settles: resolve / reject, then lines 44-48
SettleEffect(ok) ==
    /\ taskStatus' = [taskStatus EXCEPT ![curTask] = IF ok THEN "ok" ELSE "failed"]
    /\ executing' = executing \ {curTask}
    /\ curTask' = NoTask
    /\ IF Len(queue) > 0
       THEN /\ workerAt' = "delay"
            /\ delayUntil' = now + TimerDelay
            /\ UNCHANGED isRunning
       ELSE /\ workerAt' = "idle"
            /\ isRunning' = FALSE
            /\ UNCHANGED delayUntil
    /\ UNCHANGED <<queue, minIntervalMs, startLog, intervalChanged>>

TaskSettle(ok) ==
    /\ workerAt = "task"
    /\ SettleEffect(ok)
    /\ UNCHANGED <<now, outsideQueue>>

\* the pacing timer fires: back to the head of the while loop
DelayElapse ==
    /\ workerAt = "delay"
    /\ now >= delayUntil
    /\ IF Len(queue) > 0
       THEN /\ InvokeHead(queue, taskStatus)
            /\ UNCHANGED isRunning
       ELSE /\ workerAt' = "idle"
            /\ isRunning' = FALSE
            /\ UNCHANGED <<queue, curTask, executing, taskStatus, startLog>>
    /\ UNCHANGED <<now, minIntervalMs, delayUntil, intervalChanged, outsideQueue>>

SetInterval(ms) ==
    /\ ms # minIntervalMs
    /\ intervalChanged < MaxIntervalChanges
    /\ minIntervalMs' = ms
    /\ intervalChanged' = intervalChanged + 1
    /\ UNCHANGED <<now, queue, isRunning, workerAt, curTask, delayUntil, taskStatus,
                   executing, startLog, outsideQueue>>

InitQ ==
    /\ now = 0
    /\ InitQueue
    /\ TokenAtRest
    /\ CacheAtRest
    /\ WsAtRest

NextQ ==
    \/ \E t \in Tasks : Enqueue(t)
    \/ \E ok \in BOOLEAN : TaskSettle(ok)
    \/ DelayElapse
    \/ \E ms \in {PaperIntervalMs, LiveIntervalMs} : SetInterval(ms)
    \/ AdvanceClock

SpecQueue == InitQ /\ [][NextQ]_vars

\* Time passes until the pacing timer of line 45 is due.
TimerDue ==
    /\ workerAt = "delay"
    /\ now < delayUntil
    /\ now' = delayUntil
    /\ UNCHANGED <<queueVars, outsideQueue>>

NextQLive ==
    \/ \E t \in Tasks : Enqueue(t)
    \/ \E ok \in BOOLEAN : TaskSettle(ok)
    \/ DelayElapse
    \/ \E ms \in {PaperIntervalMs, LiveIntervalMs} : SetInterval(ms)
    \/ TimerDue

\* The queue with its scheduling: a timer that was set becomes due and its
\* callback runs (the event loop), and a task that was invoked settles.
SpecQueueLive ==
    /\ InitQ
    /\ [][NextQLive]_vars
    /\ WF_vars(TimerDue)
    /\ WF_vars(DelayElapse)
    /\ WF_vars(\E ok \in BOOLEAN : TaskSettle(ok))

(***************************************************************************)
(* Claims about the request queue                                          *)
(***************************************************************************)
Settled(t) == taskStatus[t] \in {"ok", "failed"}

\* C2 (as claimed): with minIntervalMs = m never changed, the start times of
\* any two consecutively dequeued tasks are at least m apart.
C2_RatePacing ==
    intervalChanged = 0 =>
        \A i \in 2..Len(startLog) :
            startLog[i].at - startLog[i-1].at >= minIntervalMs

\* C3: at most one queued task is executing at any time, and when a task is
\* started every task started before it has settled.
C3_MutualExclusion ==
    /\ Cardinality(executing) <= 1
    /\ \A i \in 1..(Len(startLog) - 1) : Settled(startLog[i].task)

C3_Witness ==
    /\ Len(startLog) >= 2
    /\ executing # {}
    /\ Len(queue) > 0

\* C30: tasks are started in the order in which they were enqueued, whatever
\* the interleaving of enqueue calls, task completions and pacing delays:
\* the tasks of the start log are in the order of their enqueue calls, and no
\* task that waits in the queue was enqueued before a task that has started.
\* (Enqueue hands out the task ids in increasing order.)
C30_FifoOrder ==
    /\ \A i \in 1..Len(startLog) - 1 : startLog[i].task < startLog[i + 1].task
    /\ \A i \in 1..Len(startLog), j \in 1..Len(queue) : startLog[i].task < queue[j]
    /\ \A j \in 1..Len(queue) - 1 : queue[j] < queue[j + 1]

\* two tasks waited in the queue while the first one ran, and all three have
\* been started, the third after the pacing delay that followed the second
C30_Witness ==
    /\ Len(startLog) = MaxTasks
    /\ \A i \in 1..MaxTasks : startLog[i].task = i
    /\ startLog[2].at > startLog[1].at
    /\ startLog[3].at > startLog[2].at

\* the number of invocations of task t so far
Invocations(t) == Cardinality({i \in 1..Len(startLog) : startLog[i].task = t})

\* a task is new, or waits in the queue once and was never invoked, or was
\* invoked once and is not in the queue
InvokedOnce ==
    \A t \in Tasks :
        LET waiting == Cardinality({j \in 1..Len(queue) : queue[j] = t}) IN
        CASE taskStatus[t] = "new" -> waiting = 0 /\ Invocations(t) = 0
          [] taskStatus[t] = "queued" -> waiting = 1 /\ Invocations(t) = 0
          [] OTHER -> waiting = 0 /\ Invocations(t) = 1

\* a step rejects at most the promise of the task that was awaited, and
\* leaves the queue behind it as it was
FailureStaysWithTask ==
    \A t \in Tasks :
        taskStatus[t] # "failed" /\ taskStatus'[t] = "failed" =>
            /\ workerAt = "task" /\ curTask = t
            /\ \A u \in Tasks \ {t} : taskStatus'[u] = taskStatus[u]
            /\ queue' = queue
            /\ queue # <<>> => isRunning' /\ workerAt' = "delay"

\* C31: no retry, failure isolation: every enqueued task is invoked once and
\* never again; a failure rejects only the promise of the task that failed,
\* and the tasks queued behind it stay queued with the worker loop going on
\* to them.
C31_NoRetryIsolation == []InvokedOnce /\ [][FailureStaysWithTask]_vars

\* the first task failed while two waited behind it; both were invoked
\* afterwards and the second of them succeeded
C31_Witness ==
    /\ taskStatus[1] = "failed"
    /\ Len(startLog) = 3
    /\ startLog[2].at > startLog[1].at
    /\ taskStatus[3] = "ok"

\* C35: pacing when backlogged: when a task settles while another task waits,
\* the loop waits for the interval in force at that moment, counted from that
\* moment; the wait is not changed by a later setInterval or enqueue, and no
\* task is started before it is over.
C35_BackloggedPacing ==
    [][/\ (workerAt = "task" /\ workerAt' # "task" /\ queue # <<>>) =>
              workerAt' = "delay" /\ delayUntil' = now + minIntervalMs
       /\ (workerAt = "delay" /\ workerAt' = "delay") =>
              delayUntil' = delayUntil /\ startLog' = startLog
       /\ (workerAt = "delay" /\ startLog' # startLog) => now >= delayUntil
      ]_vars

\* the second task was started when the wait set at the first task's
\* settlement was over, the interval having been changed during the wait,
\* with a third task waiting
C35_Witness ==
    /\ Len(startLog) = 2
    /\ workerAt = "task" /\ curTask = 2
    /\ delayUntil > 0
    /\ startLog[2].at >= delayUntil
    /\ intervalChanged >= 1
    /\ minIntervalMs = LiveIntervalMs
    /\ startLog[2].at = PaperIntervalMs
    /\ queue = <<3>>

\* C34: no stranded task: whenever a task waits in the queue the worker loop
\* is running (awaiting a task or its pacing timer), and, every invoked task
\* settling eventually, every task that waits in the queue is eventually
\* invoked.
C34_NoStrandedTask ==
    /\ [](queue # <<>> => isRunning /\ workerAt \in {"task", "delay"})
    /\ \A t \in Tasks : (taskStatus[t] = "queued") ~> (Invocations(t) = 1)

\* two tasks wait in the queue while the loop is in its pacing wait after a
\* failed task
C34_Witness ==
    /\ Len(queue) = 2
    /\ workerAt = "delay"
    /\ now < delayUntil
    /\ taskStatus[1] = "failed"

(***************************************************************************)
(* Token lifecycle: getKisAccessToken (live) and getKisVirtualAccessToken  *)
(* (paper) are the same code over their own tokenPromise and storage key.  *)
(***************************************************************************)
TokenValidityMs == 43200000

InitToken ==
    /\ tokenPromise = [m \in Modes |-> NoTask]
    /\ auth \in [Modes -> {NoAuth, [token |-> StoredToken, tokenTime |-> 0]}]
    /\ issueMode = [t \in Tasks |-> "none"]
    /\ issueResp = [t \in Tasks |-> "none"]
    /\ issueResult = [t \in Tasks |-> Pending]
    /\ callMode = [c \in Calls |-> "none"]
    /\ callState = [c \in Calls |-> "none"]
    /\ callJoined = [c \in Calls |-> NoTask]
    /\ callResult = [c \in Calls |-> Pending]
    /\ otherWrites = 0
    /\ issueError = [t \in Tasks |-> NoError]

\* line 53: if (tokenPromise) return tokenPromise
MutNeverJoin(m) == FALSE
JoinsPending(m) == tokenPromise[m] # NoTask

\* lines 55-60: the stored credential is used while younger than 12 hours
MutValidAtWindow(m, force) ==
    /\ ~force
    /\ auth[m] # NoAuth
    /\ now - auth[m].tokenTime <= TokenValidityMs
CachedValid(m, force) ==
    /\ ~force
    /\ auth[m] # NoAuth
    /\ now - auth[m].tokenTime < TokenValidityMs

HasFreeTask == \E t \in 1..MaxIssuances : taskStatus[t] = "new"
FreeTask == CHOOSE t \in Tasks :
                taskStatus[t] = "new" /\ \A u \in Tasks : u < t => taskStatus[u] # "new"

\* getKisAccessToken(appKey, appSecret, forceRefresh) up to its return
GetToken(c, m, force) ==
    /\ callState[c] = "none"
    /\ \A d \in Calls : d < c => callState[d] # "none"
    /\ callMode' = [callMode EXCEPT ![c] = m]
    /\ IF JoinsPending(m)
       THEN /\ callState' = [callState EXCEPT ![c] = "waiting"]
            /\ callJoined' = [callJoined EXCEPT ![c] = tokenPromise[m]]
            /\ UNCHANGED <<queueVars, tokenPromise, issueMode, callResult>>
       ELSE IF CachedValid(m, force)
       THEN /\ callState' = [callState EXCEPT ![c] = "returned"]
            /\ callResult' = [callResult EXCEPT ![c] = auth[m].token]
            /\ UNCHANGED <<queueVars, tokenPromise, issueMode, callJoined>>
       ELSE /\ HasFreeTask
            /\ EnqueueEffect(FreeTask)
            /\ tokenPromise' = [tokenPromise EXCEPT ![m] = FreeTask]
            /\ issueMode' = [issueMode EXCEPT ![FreeTask] = m]
            /\ callState' = [callState EXCEPT ![c] = "waiting"]
            /\ callJoined' = [callJoined EXCEPT ![c] = FreeTask]
            /\ UNCHANGED callResult
    /\ UNCHANGED <<now, auth, issueResp, issueResult, otherWrites, issueError, outsideToken>>

\* the issuance settles: every caller awaiting it gets its outcome, and the
\* finally block (lines 87-90) releases the lock
FinishIssuance(t, result) ==
    /\ issueResult' = [issueResult EXCEPT ![t] = result]
    /\ tokenPromise' = [tokenPromise EXCEPT ![issueMode[t]] = NoTask]
    /\ callState' = [c \in Calls |->
                        IF callState[c] = "waiting" /\ callJoined[c] = t
                        THEN (IF result = Threw THEN "threw" ELSE "returned")
                        ELSE callState[c]]
    /\ callResult' = [c \in Calls |->
                        IF callState[c] = "waiting" /\ callJoined[c] = t
                        THEN result ELSE callResult[c]]

ResponseKinds == {"issued", "quota", "rejected", "neterr"}

\* the provider's answers that are not ok: HTTP status and error_code
QuotaCode == "EGW00133"
ResponseOf(kind) ==
    IF kind = "quota" THEN [status |-> "403", code |-> QuotaCode]
    ELSE IF kind = "rejected" THEN [status |-> "401", code |-> "EGW00103"]
    ELSE NoError

\* line 82: new Error(`... ${response.status} ${JSON.stringify(data)}`); a
\* failed fetch rejects with the network error, which has neither
ThrownFor(kind) == IF kind = "neterr" THEN [status |-> "", code |-> "network"]
                   ELSE ResponseOf(kind)

\* lines 75-81: the quota answer is absorbed when storage holds a credential
MutQuotaNeverAbsorbed(t, m) == FALSE
QuotaAbsorbed(t, m) == ResponseOf(issueResp[t]).code = QuotaCode /\ auth[m] # NoAuth

\* the fetch of line 65 settles inside the queue; a network error rejects the
\* enqueue promise and the issuance throws in the same turn
TokenFetchSettle(kind) ==
    /\ workerAt = "task"
    /\ issueMode[curTask] # "none"
    /\ SettleEffect(kind # "neterr")
    /\ IF kind = "neterr"
       THEN /\ FinishIssuance(curTask, Threw)
            /\ issueError' = [issueError EXCEPT ![curTask] = ThrownFor(kind)]
            /\ UNCHANGED issueResp
       ELSE /\ issueResp' = [issueResp EXCEPT ![curTask] = kind]
            /\ UNCHANGED <<tokenPromise, issueResult, callState, callResult, issueError>>
    /\ UNCHANGED <<now, auth, issueMode, callMode, callJoined, otherWrites, outsideToken>>

\* lines 71-86: the body is read (await response.json()) and handled
TokenBodyRead(t) ==
    /\ issueResp[t] # "none"
    /\ issueResult[t] = Pending
    /\ LET m == issueMode[t] IN
       IF issueResp[t] = "issued"
       THEN /\ auth' = [auth EXCEPT ![m] = [token |-> t, tokenTime |-> now]]
            /\ FinishIssuance(t, t)
            /\ UNCHANGED issueError
       ELSE IF QuotaAbsorbed(t, m)
       THEN /\ FinishIssuance(t, auth[m].token)
            /\ UNCHANGED <<auth, issueError>>
       ELSE /\ FinishIssuance(t, Threw)
            /\ issueError' = [issueError EXCEPT ![t] = ThrownFor(issueResp[t])]
            /\ UNCHANGED auth
    /\ UNCHANGED <<now, queueVars, issueMode, issueResp, callMode, callJoined, otherWrites, outsideToken>>

\* KisAuthStorage.set by another window of the application (shared localStorage)
StorageWrite(m) ==
    /\ otherWrites < MaxOtherWrites
    /\ otherWrites' = otherWrites + 1
    /\ auth' = [auth EXCEPT ![m] = [token |-> StoredToken, tokenTime |-> now]]
    /\ UNCHANGED <<now, queueVars, tokenPromise, issueMode, issueResp, issueResult,
                   callMode, callState, callJoined, callResult, issueError, outsideToken>>

\* KisAuthStorage.clear(): the control panel's mode switch
AuthClear ==
    /\ \E m \in Modes : auth[m] # NoAuth
    /\ auth' = [m \in Modes |-> NoAuth]
    /\ UNCHANGED <<now, queueVars, tokenPromise, issueMode, issueResp, issueResult,
                   callMode, callState, callJoined, callResult, otherWrites, issueError,
                   outsideToken>>

\* the clock on the scale of the validity window (a pacing timer of the queue
\* is due at the next step)
AdvanceTokenClock ==
    /\ now < MaxTokenNow
    /\ now' = now + TokenClockStep
    /\ UNCHANGED <<queueVars, tokenVars, outsideToken>>

\* the queue is the singleton of kisRateLimiter.ts, line 53
InitT ==
    /\ now = 0
    /\ InitQueue
    /\ minIntervalMs = PaperIntervalMs
    /\ InitToken
    /\ CacheAtRest
    /\ WsAtRest

NextT ==
    \/ \E c \in Calls, m \in Modes, force \in BOOLEAN : GetToken(c, m, force)
    \/ \E kind \in ResponseKinds : TokenFetchSettle(kind)
    \/ \E t \in Tasks : TokenBodyRead(t)
    \/ DelayElapse
    \/ AdvanceTokenClock
    \/ \E m \in Modes : StorageWrite(m)
    \/ AuthClear

SpecToken == InitT /\ [][NextT]_vars

(***************************************************************************)
(* Claims about the token lifecycle                                        *)
(***************************************************************************)
IssuancesOf(m) == {t \in Tasks : issueMode[t] = m}
Unfinished(t) == issueResult[t] = Pending
WaitingOn(t) == {c \in Calls : callState[c] = "waiting" /\ callJoined[c] = t}

\* C1: for each mode, the getToken calls made before any issuance response
\* has returned share one issuance request: at most one request of the mode
\* is unanswered at any time, every waiting caller awaits exactly that
\* request, and every caller that awaited a request got that request's result.
C1_SingleFlight ==
    \A m \in Modes :
        /\ Cardinality({t \in IssuancesOf(m) : Unfinished(t)}) <= 1
        /\ (\A t \in IssuancesOf(m) : ~Settled(t)) => Cardinality(IssuancesOf(m)) <= 1
        /\ \A c \in Calls :
              (callState[c] = "waiting" /\ callMode[c] = m) =>
                  /\ callJoined[c] = tokenPromise[m]
                  /\ callJoined[c] \in IssuancesOf(m)
        /\ \A c \in Calls :
              (callMode[c] = m /\ callState[c] \in {"returned", "threw"}
                               /\ callJoined[c] # NoTask) =>
                  callResult[c] = issueResult[callJoined[c]]

\* two callers of one mode share one request that has not been answered
C1_Witness ==
    \E t \in Tasks :
        /\ taskStatus[t] = "running"
        /\ Cardinality(WaitingOn(t)) >= 2

\* C15: a getToken call without forced refresh that finds no issuance pending
\* returns the stored token and sends no request when the stored credential is
\* younger than 12 hours; when it is 12 hours old or older, or there is none,
\* the call sends an issuance request through the queue and awaits it.
C15_ValidityWindow ==
    [][\A c \in Calls, m \in Modes :
          (GetToken(c, m, FALSE) /\ tokenPromise[m] = NoTask) =>
              IF auth[m] # NoAuth /\ now - auth[m].tokenTime < TokenValidityMs
              THEN /\ callState'[c] = "returned"
                   /\ callResult'[c] = auth[m].token
                   /\ UNCHANGED <<queueVars, issueMode, tokenPromise>>
              ELSE \E t \in Tasks :
                      /\ taskStatus[t] = "new" /\ taskStatus'[t] # "new"
                      /\ issueMode[t] = "none" /\ issueMode'[t] = m
                      /\ tokenPromise'[m] = t
                      /\ callState'[c] = "waiting" /\ callJoined'[c] = t]_vars

\* a call got the stored token 6 hours after it was stored without a request,
\* and a call made when a stored token was 12 hours old awaits a request
C15_Witness ==
    \E c, e \in Calls, m \in Modes :
        /\ callMode[c] = m /\ callMode[e] = m
        /\ callState[c] = "returned" /\ callJoined[c] = NoTask
        /\ callState[e] = "waiting" /\ callJoined[e] # NoTask
        /\ auth[m] # NoAuth
        /\ now - auth[m].tokenTime = TokenValidityMs

\* C16: when the provider rejects an issuance with the per-minute quota code,
\* storage is read again at that moment: if it holds a credential of the mode,
\* the issuance and every caller awaiting it return that credential's token;
\* if it holds none, they fail with an error carrying the provider's status
\* and code.
C16_QuotaAbsorption ==
    [][\A t \in Tasks :
          (/\ ResponseOf(issueResp[t]).code = QuotaCode
           /\ issueResult[t] = Pending /\ issueResult'[t] # Pending) =>
              LET m == issueMode[t] IN
              IF auth[m] # NoAuth
              THEN /\ issueResult'[t] = auth[m].token
                   /\ \A c \in WaitingOn(t) :
                         callState'[c] = "returned" /\ callResult'[c] = auth[m].token
                   /\ issueError'[t] = NoError
              ELSE /\ issueResult'[t] = Threw
                   /\ \A c \in WaitingOn(t) : callState'[c] = "threw"
                   /\ issueError'[t] = ResponseOf(issueResp[t])
                   /\ issueError'[t].status # "" /\ issueError'[t].code = QuotaCode]_vars

\* an issuance was rejected for quota and its caller got the token found in
\* storage, after another window had stored one
C16_Witness ==
    \E t \in Tasks, c \in Calls :
        /\ issueResp[t] = "quota"
        /\ issueResult[t] = StoredToken
        /\ otherWrites = 1
        /\ callJoined[c] = t /\ callState[c] = "returned" /\ callResult[c] = StoredToken

\* C36 (as claimed): token freshness: whenever a getToken call returns, its
\* token is the one of an issuance it awaited that the provider granted, or
\* the token of the stored credential of its mode, which is younger than 12
\* hours at that moment.
C36_TokenFreshness ==
    [][\A c \in Calls :
          (callState[c] # "returned" /\ callState'[c] = "returned") =>
              LET m == callMode'[c]
                  t == callJoined'[c]
              IN  \/ /\ t # NoTask
                     /\ issueResp[t] = "issued"
                     /\ callResult'[c] = t
                  \/ /\ auth[m] # NoAuth
                     /\ callResult'[c] = auth[m].token
                     /\ now - auth[m].tokenTime < TokenValidityMs]_vars

(***************************************************************************)
(* ChartCacheManager (storage.ts).  A point is [price, date, hour] with *)
(* date YYYYMMDD and hour HHMMSS; both are fixed-width digit strings in    *)
(* the code, so the string key date + hour orders as the pair (date, hour) *)
(* and the string comparisons of dates and hours order as the numbers.     *)
(***************************************************************************)
Today == Calendar[todayIdx]

KeyOf(it) == [date |-> it.date, hour |-> it.hour]
KeyLess(a, b) == a.date < b.date \/ (a.date = b.date /\ a.hour < b.hour)
KeyLeq(a, b) == a = b \/ KeyLess(a, b)

\* the points a backfill can hand over
Points ==
    {[price |-> p, date |-> Calendar[d], hour |-> h] :
        p \in Prices, d \in 1..Len(Calendar), h \in Hours}

RECURSIVE SeqsUpTo(_, _)
SeqsUpTo(S, n) ==
    IF n = 0 THEN {<<>>}
    ELSE LET shorter == SeqsUpTo(S, n - 1)
         IN  shorter \cup {Append(q, x) : q \in {r \in shorter : Len(r) = n - 1}, x \in S}

\* the series a backfill can hand over: any order, repeated keys allowed
NewItemSeqs == SeqsUpTo(Points, MaxNewItems)

\* itemMap.set(item.date + item.hour, item): a Map keeps the position of a key
\* it already holds and appends a new key
MapSet(m, it) ==
    IF \E i \in 1..Len(m) : KeyOf(m[i]) = KeyOf(it)
    THEN [i \in 1..Len(m) |-> IF KeyOf(m[i]) = KeyOf(it) THEN it ELSE m[i]]
    ELSE Append(m, it)

\* lines 582-588: the two loops over existingItems and newItems
RECURSIVE MapSetAll(_, _)
MapSetAll(m, xs) ==
    IF xs = <<>> THEN m
    ELSE MapSetAll(IF Head(xs).price > 0 THEN MapSet(m, Head(xs)) ELSE m, Tail(xs))

\* Array.prototype.sort with the localeCompare of the keys (stable)
RECURSIVE InsertByKey(_, _)
InsertByKey(sorted, it) ==
    IF sorted = <<>> THEN <<it>>
    ELSE IF KeyLeq(KeyOf(Head(sorted)), KeyOf(it))
         THEN <<Head(sorted)>> \o InsertByKey(Tail(sorted), it)
         ELSE <<it>> \o sorted

RECURSIVE SortByKey(_)
SortByKey(xs) ==
    IF xs = <<>> THEN <<>>
    ELSE InsertByKey(SortByKey(SubSeq(xs, 1, Len(xs) - 1)), xs[Len(xs)])

\* lines 580-593: the merged series
MutMergeAppend(existing, newItems) ==
    SortByKey(SelectSeq(existing \o newItems, LAMBDA it : it.price > 0))
MutMergeExistingWins(existing, newItems) ==
    SortByKey(MapSetAll(MapSetAll(<<>>, newItems), existing))
MutMergeNewOnly(existing, newItems) ==
    SortByKey(MapSetAll(<<>>, newItems))
MutMergeUnsorted(existing, newItems) ==
    MapSetAll(MapSetAll(<<>>, existing), newItems)
MergedItems(existing, newItems) ==
    SortByKey(MapSetAll(MapSetAll(<<>>, existing), newItems))

\* lines 595-599: { ...data, lastUpdated: today, items: mergedItems }
MutEntryWithoutSpread(data, items) ==
    [NoEntry EXCEPT !.present = TRUE, !.lastUpdated = Today, !.items = items]
MergedEntry(data, items) ==
    [data EXCEPT !.present = TRUE, !.lastUpdated = Today, !.items = items]

\* saveMergedItems(symbol, newItems); the provider has no point later than today
SaveMergedItems(s, newItems) ==
    LET merged == MergedItems(store[s].items, newItems) IN
    /\ \A i \in 1..Len(newItems) : newItems[i].date <= Today
    /\ Len(merged) <= MaxStored
    /\ store' = [store EXCEPT ![s] = MergedEntry(store[s], merged)]
    /\ lastOp' = [NoOp EXCEPT
                    !.op = "merge", !.sym = s, !.mergeRet = merged,
                    !.remerge = (lastOp.op = "merge" /\ lastOp.sym = s
                                 /\ newItems = lastOp.mergeRet),
                    !.reordered = (MapSetAll(MapSetAll(<<>>, store[s].items), newItems)
                                   # merged)]
    /\ UNCHANGED <<todayIdx, hourNow, forced, probe, outsideCache>>

\* updateBasePrice(symbol, basePrice), lines 439-456
UpdateBasePrice(s, bp) ==
    /\ bp # 0
    /\ store' = [store EXCEPT ![s] =
                    IF store[s].present
                    THEN [store[s] EXCEPT !.basePrice = bp, !.lastUpdated = Today]
                    ELSE [NoEntry EXCEPT !.present = TRUE, !.lastUpdated = Today,
                                         !.basePrice = bp]]
    /\ lastOp' = [NoOp EXCEPT !.op = "base", !.sym = s]
    /\ UNCHANGED <<todayIdx, hourNow, forced, probe, outsideCache>>

\* getCachedItems, line 493: data.lastUpdated < String(Number(today) - 5)
ExpiredOn(data, today) == data.present /\ data.lastUpdated < today - 5
Expired(data) == ExpiredOn(data, Today)

\* lines 510-536: gap detection over today's regular-session points
TodayItems(items) ==
    SelectSeq(items, LAMBDA it : it.date = Today /\ it.hour >= 90000 /\ it.hour <= 153000)
MinutesOf(hour) == ((hour \div 10000) * 60) + ((hour \div 100) % 100)
MutGapAtSixty(ti) ==
    \/ ti[1].hour > 93000 /\ hourNow > 93000
    \/ \E i \in 2..Len(ti) : MinutesOf(ti[i].hour) - MinutesOf(ti[i-1].hour) >= 60
HasGap(ti) ==
    \/ ti[1].hour > 93000 /\ hourNow > 93000
    \/ \E i \in 2..Len(ti) : MinutesOf(ti[i].hour) - MinutesOf(ti[i-1].hour) > 60

\* lines 552-558: the key that makes the caller fetch the whole session again
ForcedKey(items) ==
    LET earlier == SelectSeq(items, LAMBDA it : it.date # Today) IN
    IF Len(earlier) > 0 THEN KeyOf(earlier[Len(earlier)])
    ELSE [date |-> Today, hour |-> 90000]

\* getLastCachedDateHour(symbol), lines 504-565: what it writes and returns
ResumeEffect(s) ==
    LET data == store[s]
        items == IF Expired(data) THEN <<>> ELSE data.items
        ti == TodayItems(items)
        already == data.lastGapCleared = Today
        force == Len(ti) > 0 /\ HasGap(ti) /\ ~already
    IN
    /\ store' = [store EXCEPT ![s] =
                    IF Expired(data) THEN NoEntry
                    ELSE IF Len(items) > 0 /\ force
                         THEN [data EXCEPT !.lastGapCleared = Today]
                         ELSE data]
    /\ lastOp' = [NoOp EXCEPT
                    !.op = "resume", !.sym = s,
                    !.resumeRet = IF Len(items) = 0 THEN NoKey
                                  ELSE IF force THEN ForcedKey(items)
                                  ELSE KeyOf(items[Len(items)]),
                    !.already = (Len(ti) > 0 /\ HasGap(ti) /\ already),
                    !.forcedRet = (Len(items) > 0 /\ force)]
    /\ forced' = [forced EXCEPT ![s] = IF Len(items) > 0 /\ force THEN @ + 1 ELSE @]

GetLastCachedDateHour(s) ==
    /\ ResumeEffect(s)
    /\ UNCHANGED <<todayIdx, hourNow, probe, outsideCache>>

\* the clock of the cache: later the same day, or a later day
LaterToday ==
    /\ \E h \in HourNows : h > hourNow /\ hourNow' = h
    /\ UNCHANGED <<store, todayIdx, lastOp, forced, probe, outsideCache>>

NextDay ==
    /\ todayIdx < Len(Calendar)
    /\ todayIdx' = todayIdx + 1
    /\ hourNow' \in HourNows
    /\ forced' = [s \in CacheSymbols |-> 0]
    /\ UNCHANGED <<store, lastOp, probe, outsideCache>>

InitC ==
    /\ now = 0
    /\ InitQueue
    /\ minIntervalMs = PaperIntervalMs
    /\ TokenAtRest
    /\ WsAtRest
    /\ store = [s \in CacheSymbols |-> NoEntry]
    /\ todayIdx = 1
    /\ hourNow \in HourNows
    /\ lastOp = NoOp
    /\ forced = [s \in CacheSymbols |-> 0]
    /\ probe = NoProbe

NextC ==
    \/ \E s \in CacheSymbols :
          \E X \in NewItemSeqs \cup {lastOp.mergeRet} :
              SaveMergedItems(s, X)
    \/ \E s \in CacheSymbols, bp \in Prices : UpdateBasePrice(s, bp)
    \/ \E s \in CacheSymbols : GetLastCachedDateHour(s)
    \/ LaterToday
    \/ NextDay

SpecCache == InitC /\ [][NextC]_vars

(***************************************************************************)
(* Claims about the chart cache                                            *)
(***************************************************************************)
\* C5: merging the series a merge has just returned into the same symbol
\* returns that same series and leaves the persisted points unchanged.
C5_MergeIdempotent ==
    [][(lastOp'.op = "merge" /\ lastOp'.remerge) =>
          /\ lastOp'.mergeRet = lastOp.mergeRet
          /\ store'[lastOp'.sym].items = store[lastOp'.sym].items]_vars

C5_Witness ==
    /\ lastOp.op = "merge"
    /\ lastOp.remerge
    /\ Len(lastOp.mergeRet) >= 2

\* C6: the cached series of every symbol is in strictly increasing
\* (date, timeOfDay) order, so it is sorted and no key occurs twice.
C6_SortedUnique ==
    \A s \in CacheSymbols :
        \A i \in 1..(Len(store[s].items) - 1) :
            KeyLess(KeyOf(store[s].items[i]), KeyOf(store[s].items[i+1]))

\* a merge whose Map held the points in another order than the key order
C6_Witness ==
    /\ lastOp.op = "merge"
    /\ lastOp.reordered
    /\ Len(store[lastOp.sym].items) >= 3

\* C7: on one calendar day getResumePoint returns the forced key of a symbol
\* at most once; a call that finds a gap on an entry already flagged today
\* returns the latest cached key.
C7_GapRetriggerBound ==
    /\ \A s \in CacheSymbols : forced[s] <= 1
    /\ (lastOp.op = "resume" /\ lastOp.already) =>
          /\ ~lastOp.forcedRet
          /\ store[lastOp.sym].present
          /\ lastOp.resumeRet =
                KeyOf(store[lastOp.sym].items[Len(store[lastOp.sym].items)])

\* a gap is found again after the forced key was returned, and merges and a
\* base-price update happened on that day
C7_Witness ==
    /\ lastOp.op = "resume"
    /\ lastOp.already
    /\ forced[lastOp.sym] = 1
    /\ store[lastOp.sym].basePrice # 0

(***************************************************************************)
(* The expiry test of getCachedItems over calendar days.  Days are counted *)
(* from 1 December 2023 (day 1); December and January have 31 days.        *)
(***************************************************************************)
ProbeDays == FirstDay..LastDay

\* getTodayString(), lines 460-466: the day as YYYYMMDD
DateString(n) ==
    IF n <= 31 THEN 20231200 + n
    ELSE IF n <= 62 THEN 20240100 + (n - 31)
    ELSE 20240200 + (n - 62)

\* getCachedItems(symbol), lines 485-499, on an entry last updated on
\* probe.updatedDay, read on probe.todayDay
GetCachedItems ==
    /\ probe.state = "stored"
    /\ probe' = [probe EXCEPT !.state =
                    IF ExpiredOn([NoEntry EXCEPT !.present = TRUE,
                                                 !.lastUpdated = DateString(probe.updatedDay)],
                                 DateString(probe.todayDay))
                    THEN "dropped" ELSE "kept"]
    /\ UNCHANGED <<store, todayIdx, hourNow, lastOp, forced, outsideCache>>

InitE ==
    /\ now = 0
    /\ InitQueue
    /\ minIntervalMs = PaperIntervalMs
    /\ TokenAtRest
    /\ WsAtRest
    /\ store = [s \in CacheSymbols |-> NoEntry]
    /\ todayIdx = 1
    /\ hourNow = 90000
    /\ lastOp = NoOp
    /\ forced = [s \in CacheSymbols |-> 0]
    /\ \E u \in ProbeDays, d \in ProbeDays :
          /\ u <= d /\ d - u <= MaxProbeAge
          /\ probe = [updatedDay |-> u, todayDay |-> d, state |-> "stored"]

NextE == GetCachedItems

SpecExpiry == InitE /\ [][NextE]_vars

\* C14: a read drops the entry exactly when its last update is more than 5
\* calendar days before the day of the read, and keeps it otherwise, also
\* across the end of a month or a year.
C14_CacheExpiry ==
    probe.state \in {"dropped", "kept"} =>
        (probe.state = "dropped" <=> probe.todayDay - probe.updatedDay > 5)

(***************************************************************************)
(* saveMergedItems as a function of the cached series and the new items.   *)
(***************************************************************************)
\* the series the cache can hold: written by saveMergedItems only, so
\* positive prices in increasing key order
StoredSeries ==
    {q \in SeqsUpTo({pt \in Points : pt.price > 0}, MaxStored) :
        \A i \in 1..Len(q) - 1 : KeyLess(KeyOf(q[i]), KeyOf(q[i + 1]))}

InitM ==
    /\ now = 0
    /\ InitQueue
    /\ minIntervalMs = PaperIntervalMs
    /\ TokenAtRest
    /\ WsAtRest
    /\ todayIdx = Len(Calendar)
    /\ hourNow = 90000
    /\ lastOp = NoOp
    /\ forced = [s \in CacheSymbols |-> 0]
    /\ \E E \in StoredSeries, X \in NewItemSeqs :
          /\ store = [s \in CacheSymbols |->
                         IF E = <<>> THEN NoEntry
                         ELSE [NoEntry EXCEPT !.present = TRUE,
                                              !.lastUpdated = Calendar[1],
                                              !.items = E]]
          /\ probe = [state |-> "given", existing |-> E, newItems |-> X]

NextM == \E s \in CacheSymbols : lastOp.op = "none" /\ SaveMergedItems(s, probe.newItems)

SpecMerge == InitM /\ [][NextM]_vars

\* the positions of xs that hold key k with a positive price
PositiveAt(xs, k) == {i \in 1..Len(xs) : KeyOf(xs[i]) = k /\ xs[i].price > 0}
LastPositiveAt(xs, k) ==
    xs[CHOOSE i \in PositiveAt(xs, k) : \A j \in PositiveAt(xs, k) : j <= i]

\* C21: saveMergedItems returns and stores the key-ordered series with one
\* point for each (date, hour) key that has a positive price in the cached
\* series or in newItems and no other point; the point is the one of newItems
\* where newItems has a positive price at the key (the later one of several)
\* and the cached one otherwise; no price in the result is zero or negative.
C21_MergeResult ==
    lastOp.op = "merge" =>
        LET r == lastOp.mergeRet
            E == probe.existing
            X == probe.newItems
        IN  /\ store[lastOp.sym].items = r
            /\ \A pt \in Points :
                  Cardinality({i \in 1..Len(r) : KeyOf(r[i]) = KeyOf(pt)}) =
                      (IF PositiveAt(X, KeyOf(pt)) \cup PositiveAt(E, KeyOf(pt)) # {}
                       THEN 1 ELSE 0)
            /\ \A i \in 1..Len(r) :
                  /\ r[i].price > 0
                  /\ r[i] = (IF PositiveAt(X, KeyOf(r[i])) # {}
                             THEN LastPositiveAt(X, KeyOf(r[i]))
                             ELSE LastPositiveAt(E, KeyOf(r[i])))
            /\ \A i \in 1..Len(r) - 1 : KeyLess(KeyOf(r[i]), KeyOf(r[i + 1]))

\* a merge replaced the price of a cached key, kept another cached point and
\* left out a new item without a price
C21_Witness ==
    /\ lastOp.op = "merge"
    /\ \E i \in 1..Len(probe.existing), j \in 1..Len(probe.newItems) :
          /\ KeyOf(probe.existing[i]) = KeyOf(probe.newItems[j])
          /\ probe.newItems[j].price > 0
          /\ probe.newItems[j].price # probe.existing[i].price
    /\ \E j \in 1..Len(probe.newItems) :
          /\ probe.newItems[j].price = 0
          /\ PositiveAt(lastOp.mergeRet, KeyOf(probe.newItems[j])) # {}
          /\ PositiveAt(probe.newItems, KeyOf(probe.newItems[j])) = {}

(***************************************************************************)
(* getLastCachedDateHour as a function of the entry and the clock, over    *)
(* times of day around the edges of its tests.                             *)
(***************************************************************************)
ResumeHours == {85900, 90000, 93000, 93100, 103000, 103100, 153000, 153100}
ResumeClocks == {90000, 93000, 93100, 120000}

ResumeSeries ==
    {q \in SeqsUpTo({[price |-> 1, date |-> Calendar[d], hour |-> h] :
                         d \in 1..Len(Calendar), h \in ResumeHours}, MaxStored) :
        \A i \in 1..Len(q) - 1 : KeyLess(KeyOf(q[i]), KeyOf(q[i + 1]))}

InitR ==
    /\ now = 0
    /\ InitQueue
    /\ minIntervalMs = PaperIntervalMs
    /\ TokenAtRest
    /\ WsAtRest
    /\ todayIdx = Len(Calendar)
    /\ hourNow \in ResumeClocks
    /\ lastOp = NoOp
    /\ forced = [s \in CacheSymbols |-> 0]
    /\ probe = NoProbe
    /\ \E E \in ResumeSeries, present \in BOOLEAN, flag \in {0, Calendar[1], Today} :
          /\ E # <<>> => present
          /\ ~present => flag = 0
          /\ store = [s \in CacheSymbols |->
                         IF ~present THEN NoEntry
                         ELSE [NoEntry EXCEPT !.present = TRUE,
                                              !.lastUpdated = Today,
                                              !.items = E,
                                              !.lastGapCleared = flag]]

NextR == \E s \in CacheSymbols : lastOp.op = "none" /\ GetLastCachedDateHour(s)

SpecResume == InitR /\ [][NextR]_vars

\* today's points of the regular session, 09:00:00 to 15:30:00, in order
RegularToday(items) ==
    SelectSeq(items, LAMBDA it : it.date = Today /\ 90000 <= it.hour /\ it.hour <= 153000)
MinuteOfDay(h) == 60 * (h \div 10000) + ((h % 10000) \div 100)

\* the first point is later than 09:30 and so is the clock, or two
\* consecutive points are more than 60 minutes apart
ShowsGap(items) ==
    LET ti == RegularToday(items) IN
    /\ ti # <<>>
    /\ \/ ti[1].hour > 93000 /\ hourNow > 93000
       \/ \E i \in 1..Len(ti) - 1 : MinuteOfDay(ti[i + 1].hour) - MinuteOfDay(ti[i].hour) > 60

\* the greatest key of the points of a day other than today, or today 09:00:00
OpeningKey(items) ==
    LET earlier == {i \in 1..Len(items) : items[i].date # Today} IN
    IF earlier = {} THEN [date |-> Today, hour |-> 90000]
    ELSE KeyOf(items[CHOOSE i \in earlier :
                        \A j \in earlier : KeyLeq(KeyOf(items[j]), KeyOf(items[i]))])

ChartHours == {90000, 90100, 90200, 91100, 91200, 95900, 100000, 100100}

\* the points a series is drawn from: every point has its own price
ChartPoints ==
    {[price |-> (d * 10000) + MinutesOf(h), date |-> Calendar[d], hour |-> h] :
        d \in 1..Len(Calendar), h \in ChartHours}

RECURSIVE InKeyOrder(_)
InKeyOrder(S) ==
    IF S = {} THEN <<>>
    ELSE LET x == CHOOSE x \in S : \A y \in S : KeyLeq(KeyOf(x), KeyOf(y))
         IN  <<x>> \o InKeyOrder(S \ {x})

MinuteSeries ==
    {InKeyOrder(S) : S \in {T \in SUBSET ChartPoints : Cardinality(T) <= MaxMinuteData}}

\* lines 35-39: `${h}${min}00` of minute m of the day
HourString(m) == ((m \div 60) * 10000) + ((m % 60) * 100)

\* line 33: currMins - prevMins > 1 && currMins - prevMins <= 60
MutFillsBelowSixty(g) == g > 1 /\ g < 60
FillsGap(g) == g > 1 /\ g <= 60

\* lines 22-47: the loop, filled being the array built so far
RECURSIVE FillFrom(_, _)
FillFrom(filled, rest) ==
    IF rest = <<>> THEN filled
    ELSE LET current == Head(rest) IN
         IF filled = <<>> THEN FillFrom(<<current>>, Tail(rest))
         ELSE LET prev == filled[Len(filled)]
                  prevMins == MinutesOf(prev.hour)
                  currMins == MinutesOf(current.hour)
                  synth == IF current.date = prev.date /\ FillsGap(currMins - prevMins)
                           THEN [k \in 1..(currMins - prevMins - 1) |->
                                   [price |-> prev.price, date |-> prev.date,
                                    hour |-> HourString(prevMins + k)]]
                           ELSE <<>>
              IN  FillFrom((filled \o synth) \o <<current>>, Tail(rest))

\* forwardFillMinuteData(minuteData), lines 17-50
ForwardFillMinuteData(minuteData) ==
    IF Len(minuteData) < 2 THEN minuteData ELSE FillFrom(<<>>, minuteData)

\* line 69: item.date + item.hour.substring(0, 3)
GroupPrefix(it) == [date |-> it.date, bucket |-> it.hour \div 1000]

\* lines 71-73, 76-77, 80: the first item of a group sets lastPointInGroup
\* and every further item of the group replaces it
MutFirstPointOfGroup(group) == group[1]
LastPointInGroup(group) == group[Len(group)]

\* lines 67-85: the loop over cleanData, one group a round: the items from
\* the first one up to the change of prefix (line 74) are the group, whose
\* lastPointInGroup is pushed at the change (line 75) or after the loop
\* (line 84)
RECURSIVE ResampleFrom(_, _)
ResampleFrom(output, rest) ==
    IF rest = <<>> THEN output
    ELSE LET currentGroupPrefix == GroupPrefix(rest[1])
             changes == {i \in 1..Len(rest) : GroupPrefix(rest[i]) # currentGroupPrefix}
             n == IF changes = {} THEN Len(rest)
                  ELSE (CHOOSE i \in changes : \A j \in changes : i <= j) - 1
         IN  ResampleFrom(Append(output, LastPointInGroup(SubSeq(rest, 1, n))),
                          SubSeq(rest, n + 1, Len(rest)))

\* resampleTo10Minutes(minuteData), lines 56-88
ResampleTo10Minutes(minuteData) ==
    IF Len(minuteData) = 0 THEN <<>>
    ELSE ResampleFrom(<<>>, ForwardFillMinuteData(minuteData))

ForwardFillCall ==
    /\ probe.state = "given"
    /\ probe' = [probe EXCEPT !.state = "filled",
                              !.result = ForwardFillMinuteData(probe.minuteData)]
    /\ UNCHANGED <<store, todayIdx, hourNow, lastOp, forced, outsideCache>>

ResampleCall ==
    /\ probe.state = "given"
    /\ probe' = [probe EXCEPT !.state = "resampled",
                              !.result = ResampleTo10Minutes(probe.minuteData)]
    /\ UNCHANGED <<store, todayIdx, hourNow, lastOp, forced, outsideCache>>

InitChart ==
    /\ now = 0
    /\ InitQueue
    /\ minIntervalMs = PaperIntervalMs
    /\ TokenAtRest
    /\ WsAtRest
    /\ store = [s \in CacheSymbols |-> NoEntry]
    /\ todayIdx = 1
    /\ hourNow = 90000
    /\ lastOp = NoOp
    /\ forced = [s \in CacheSymbols |-> 0]
    /\ \E xs \in MinuteSeries :
          probe = [state |-> "given", minuteData |-> xs, result |-> <<>>]

NextChart == ForwardFillCall \/ ResampleCall

SpecChart == InitChart /\ [][NextChart]_vars

\* minutes from point a to point b, and how many minutes are missing between
\* them when they are of one date and at most an hour apart
MinutesApart(a, b) == MinuteOfDay(b.hour) - MinuteOfDay(a.hour)
Missing(a, b) ==
    IF a.date = b.date /\ 1 < MinutesApart(a, b) /\ MinutesApart(a, b) <= 60
    THEN MinutesApart(a, b) - 1 ELSE 0

\* the position in the filled series of point i of the input
RECURSIVE PlaceOf(_, _)
PlaceOf(xs, i) == IF i = 1 THEN 1 ELSE PlaceOf(xs, i - 1) + Missing(xs[i - 1], xs[i]) + 1

\* C24: the forward-filled series keeps every input point, unchanged and in
\* order, and holds between two consecutive input points of one date that are
\* g minutes apart, 1 < g <= 60, exactly the g - 1 missing minutes, each with
\* seconds 00 and the earlier point's price, and nothing between them when
\* g <= 1, g > 60 or the dates differ; the input series is as it was.
C24_ForwardFill ==
    probe.state = "filled" =>
        LET xs == probe.minuteData
            r == probe.result
        IN  /\ Len(r) = (IF xs = <<>> THEN 0 ELSE PlaceOf(xs, Len(xs)))
            /\ \A i \in 1..Len(xs) : r[PlaceOf(xs, i)] = xs[i]
            /\ \A i \in 2..Len(xs) :
                  /\ PlaceOf(xs, i) - PlaceOf(xs, i - 1) - 1 = Missing(xs[i - 1], xs[i])
                  /\ \A k \in 1..Missing(xs[i - 1], xs[i]) :
                        LET m == MinuteOfDay(xs[i - 1].hour) + k IN
                        r[PlaceOf(xs, i - 1) + k] =
                            [price |-> xs[i - 1].price, date |-> xs[i - 1].date,
                             hour |-> (10000 * (m \div 60)) + (100 * (m % 60))]
            /\ xs \in MinuteSeries

\* a series with gaps of 1 and of 60 minutes was filled: the 59 minutes of
\* the 60-minute gap are there, across the change of the hour
C24_Witness ==
    /\ probe.state = "filled"
    /\ \E i, k \in 1..Len(probe.minuteData) - 1 :
          /\ MinutesApart(probe.minuteData[i], probe.minuteData[i + 1]) = 60
          /\ probe.minuteData[i].date = probe.minuteData[i + 1].date
          /\ probe.minuteData[k].date = probe.minuteData[k + 1].date
          /\ MinutesApart(probe.minuteData[k], probe.minuteData[k + 1]) = 1
    /\ Len(probe.result) = Len(probe.minuteData) + 59
    /\ \E n \in 1..Len(probe.result) : probe.result[n].hour = 95800

\* the 10-minute bucket of a point: its date and the first three characters
\* of its time, ordered by date and then by time
BucketOf(pt) == <<pt.date, pt.hour \div 1000>>
BucketLess(a, b) == a[1] < b[1] \/ (a[1] = b[1] /\ a[2] < b[2])
BucketsOf(f) == {BucketOf(f[i]) : i \in 1..Len(f)}

\* the series with points at minute offsets 0, 1, 2, 11 and 12 of one date
OffsetsExample(xs) ==
    /\ Len(xs) = 5
    /\ \A i \in 1..5 : xs[i].date = xs[1].date
    /\ \A i \in 1..5 : MinuteOfDay(xs[i].hour) - MinuteOfDay(xs[1].hour) = <<0, 1, 2, 11, 12>>[i]

\* C23: for a key-ordered 1-minute series, resampleTo10Minutes returns one
\* point for each 10-minute bucket (date and first three characters of the
\* time) of the forward-filled series and no other point; each returned point
\* is the last point with its bucket in the forward-filled series; the points
\* are in increasing order of bucket; points at minute offsets 0, 1, 2, 11
\* and 12 give two points.
C23_Downsample ==
    probe.state = "resampled" =>
        LET xs == probe.minuteData
            f == ForwardFillMinuteData(xs)
            r == probe.result
        IN  /\ Len(r) = Cardinality(BucketsOf(f))
            /\ BucketsOf(r) = BucketsOf(f)
            /\ \A i \in 1..Len(r) :
                  \E j \in 1..Len(f) :
                     /\ r[i] = f[j]
                     /\ \A k \in 1..Len(f) :
                           BucketOf(f[k]) = BucketOf(f[j]) => KeyLeq(KeyOf(f[k]), KeyOf(f[j]))
            /\ \A i \in 1..Len(r) - 1 : BucketLess(BucketOf(r[i]), BucketOf(r[i + 1]))
            /\ OffsetsExample(xs) => Len(r) = 2

\* the series at offsets 0, 1, 2, 11 and 12 was resampled: the first bucket
\* ends with the filled minute 9 at the price of offset 2, the second with
\* the point at offset 12
C23_Witness ==
    /\ probe.state = "resampled"
    /\ OffsetsExample(probe.minuteData)
    /\ Len(probe.result) = 2
    /\ probe.result[1].hour = 90900
    /\ probe.result[1].price = probe.minuteData[3].price
    /\ probe.result[2] = probe.minuteData[5]

(***************************************************************************)
(* kisApi.ts fetchIntradayChart and kisVirtualApi.ts                       *)
(* fetchVirtualIntradayChart (the same code over the other base URL and    *)
(* token function): the paginated backfill of an instrument.  One action   *)
(* is one stretch of the call between two awaits; probe holds the locals   *)
(* of the call.  MaxPages stands for MAX_PAGES, 30 in the code; requests   *)
(* counts the page requests sent on the market of the page (the request    *)
(* of line 459), not the second request of lines 502-529.  The call is the *)
(* one of WsManager's chart timer, which stores what it returns in the     *)
(* symbol's entry of chartDataRefs (buffer).                               *)
(***************************************************************************)
BackfillClocks == {103000, 163000}

\* rows of output2, price parsed; the server sends the newest row first
BackfillRows ==
    {[price |-> p, date |-> Calendar[d], hour |-> h] :
        p \in {0, 5}, d \in 1..Len(Calendar), h \in {100000, 160000}}
PageOutputs ==
    {q \in SeqsUpTo(BackfillRows, 2) :
        \A i \in 1..Len(q) - 1 : KeyLess(KeyOf(q[i + 1]), KeyOf(q[i]))}

\* what a page request can end in: fetch or response.json() throws, a
\* response that is not ok (with msg_cd EGW00123: expired), or an ok
\* response with output2 (<<>> also when it is absent or not an array)
PageAnswers ==
    {[kind |-> k, output |-> <<>>] : k \in {"throws", "notOk", "expired"}}
        \cup {[kind |-> "ok", output |-> o] : o \in PageOutputs}

\* the series the cache can hold when the call starts
BackfillCached ==
    {<<>>,
     <<[price |-> 3, date |-> Calendar[1], hour |-> 100000]>>,
     <<[price |-> 3, date |-> Calendar[Len(Calendar)], hour |-> 90000]>>}

\* lines 439-446
Market(nextHour) ==
    IF nextHour > 153000 /\ nextHour <= 180000 THEN "NX"
    ELSE IF nextHour < 90000 THEN "NX" ELSE "J"

\* lines 485-496 and 517-526
ValidItems(output) ==
    SelectSeq(output, LAMBDA it : it.price > 0 /\ it.hour >= 80000 /\ it.hour <= 180000)

\* lines 561-564: uniqueMap.set(item.date + item.hour, item) for every item
RECURSIVE UniqueByKey(_, _)
UniqueByKey(m, xs) ==
    IF xs = <<>> THEN m ELSE UniqueByKey(MapSet(m, Head(xs)), Tail(xs))

\* lines 552-555: catch (e) { ...; break; }
MutRethrow == "throw"
OnCatch == "break"

\* lines 558-585: after the loop
AfterLoop(p, s) ==
    IF p.allItems = <<>>
    THEN /\ probe' = [p EXCEPT !.state = "returned", !.ret = <<>>]
         /\ UNCHANGED <<store, lastOp>>
    ELSE LET sortedNewItems == SortByKey(UniqueByKey(<<>>, p.allItems))
             mergedItems == MergedItems(store[s].items, sortedNewItems)
         IN  /\ store' = [store EXCEPT ![s] = MergedEntry(store[s], mergedItems)]
             /\ lastOp' = [NoOp EXCEPT !.op = "merge", !.sym = s, !.mergeRet = mergedItems]
             /\ probe' = [p EXCEPT !.state = "returned",
                                   !.ret = ResampleTo10Minutes(mergedItems)]

\* an exception inside the try block of the loop
Thrown(p, s) ==
    IF OnCatch = "break" THEN AfterLoop(p, s)
    ELSE /\ probe' = [p EXCEPT !.state = "raised"]
         /\ UNCHANGED <<store, lastOp>>

\* lines 531-551, output being the rows of the first response of the page
AfterItems(p, validItems, output, s) ==
    IF validItems = <<>> THEN AfterLoop(p, s)
    ELSE LET p1 == [p EXCEPT !.allItems = @ \o validItems] IN
         IF output = <<>> THEN Thrown(p1, s)      \* line 536: output[output.length - 1]
         ELSE LET oldest == output[Len(output)] IN
              IF \/ KeyLeq(KeyOf(oldest), p.target)
                 \/ oldest.date # Today \/ oldest.hour < 80000
                 \/ oldest.hour = p.nextHour
                 \/ p.page + 1 >= MaxPages
              THEN AfterLoop(p1, s)
              ELSE /\ probe' = [p1 EXCEPT !.nextHour = oldest.hour, !.page = @ + 1]
                   /\ UNCHANGED <<store, lastOp>>

\* line 357 answered: the token, or the exception of getKisAccessToken;
\* with the token, lines 358-459 up to the first page request
BackfillTokenAnswer(s, ok) ==
    /\ probe.state = "token"
    /\ IF ok
       THEN /\ ResumeEffect(s)
            /\ probe' = [probe EXCEPT
                            !.state = "page",
                            !.target = lastOp'.resumeRet,
                            !.nextHour = IF hourNow > 180000 THEN 180000 ELSE hourNow]
       ELSE /\ probe' = [probe EXCEPT !.state = "raised"]
            /\ UNCHANGED <<store, lastOp, forced>>
    /\ UNCHANGED <<todayIdx, hourNow, outsideCache>>

\* lines 459-551: the page request answered
BackfillPageAnswer(s, a) ==
    /\ probe.state = "page"
    /\ LET p == [probe EXCEPT !.lastAnswer = a.kind, !.requests = @ + 1] IN
       CASE a.kind = "throws" -> Thrown(p, s)
         [] a.kind = "notOk" -> AfterLoop(p, s)
         [] a.kind = "expired" ->
               /\ probe.refreshes < MaxRefreshes
               /\ probe' = [p EXCEPT !.state = "refresh", !.refreshes = @ + 1]
               /\ UNCHANGED <<store, lastOp>>
         [] a.kind = "ok" ->
               IF Market(p.nextHour) = "NX" /\ ValidItems(a.output) = <<>>
               THEN /\ probe' = [p EXCEPT !.state = "retry", !.pending = a.output]
                    /\ UNCHANGED <<store, lastOp>>
               ELSE AfterItems(p, ValidItems(a.output), a.output, s)
    /\ UNCHANGED <<todayIdx, hourNow, forced, outsideCache>>

\* lines 476-477: getKisAccessToken(appKey, appSecret, true) answered, then
\* page--; continue: the same page is requested again
BackfillRefreshAnswer(s, ok) ==
    /\ probe.state = "refresh"
    /\ IF ok
       THEN /\ probe' = [probe EXCEPT !.state = "page"]
            /\ UNCHANGED <<store, lastOp>>
       ELSE Thrown([probe EXCEPT !.lastAnswer = "refreshThrows"], s)
    /\ UNCHANGED <<todayIdx, hourNow, forced, outsideCache>>

\* lines 502-529: the request to the regular market, made when the NX
\* answer had no valid row, answered
BackfillRetryAnswer(s, a) ==
    /\ probe.state = "retry"
    /\ LET p == [probe EXCEPT !.state = "page", !.pending = <<>>,
                              \* line 514: only fbResponse.ok is looked at
                              !.lastAnswer = IF a.kind = "expired" THEN "notOk" ELSE a.kind] IN
       IF a.kind = "throws" THEN Thrown(p, s)
       ELSE AfterItems(p, IF a.kind = "ok" THEN ValidItems(a.output) ELSE <<>>,
                       probe.pending, s)
    /\ UNCHANGED <<todayIdx, hourNow, forced, outsideCache>>

\* part_002, lines 354-372: the chart timer's callback, which awaited the
\* call (line 357), goes on: chartDataRefs.current.set(symbol, chartData),
\* or the catch of line 369 when the call raised
ChartTimerResumes ==
    /\ probe.timer = "awaiting"
    /\ probe.state \in {"returned", "raised"}
    /\ probe' = IF probe.state = "returned"
                THEN [probe EXCEPT !.timer = "set", !.buffer = probe.ret]
                ELSE [probe EXCEPT !.timer = "caught"]
    /\ UNCHANGED <<store, lastOp, forced, todayIdx, hourNow, outsideCache>>

InitBackfill ==
    /\ now = 0
    /\ InitQueue
    /\ minIntervalMs = PaperIntervalMs
    /\ TokenAtRest
    /\ WsAtRest
    /\ todayIdx = Len(Calendar)
    /\ hourNow \in BackfillClocks
    /\ lastOp = NoOp
    /\ forced = [s \in CacheSymbols |-> 0]
    /\ \E E \in BackfillCached :
          /\ store = [s \in CacheSymbols |->
                         IF E = <<>> THEN NoEntry
                         ELSE [NoEntry EXCEPT !.present = TRUE,
                                              !.lastUpdated = Calendar[Len(Calendar)],
                                              !.items = E]]
          /\ \E B \in {<<>>, ResampleTo10Minutes(E)} :
                probe = [state |-> "token", page |-> 0, nextHour |-> 0, target |-> NoKey,
                         allItems |-> <<>>, pending |-> <<>>, refreshes |-> 0,
                         requests |-> 0, lastAnswer |-> "none", ret |-> <<>>,
                         existing |-> E, timer |-> "awaiting", buffer |-> B,
                         bufferBefore |-> B]

NextBackfill ==
    \E s \in CacheSymbols :
        \/ \E ok \in BOOLEAN : BackfillTokenAnswer(s, ok)
        \/ \E a \in PageAnswers : BackfillPageAnswer(s, a)
        \/ \E ok \in BOOLEAN : BackfillRefreshAnswer(s, ok)
        \/ \E a \in PageAnswers : BackfillRetryAnswer(s, a)
        \/ ChartTimerResumes

SpecBackfill == InitBackfill /\ [][NextBackfill]_vars

\* the call has returned with the collected items merged into the cache:
\* every cached key is still there, every collected item is there (the later
\* one of two with one key), and the downsampled merged series is returned
MergedAndReturned ==
    \A s \in CacheSymbols :
        IF probe.allItems = <<>>
        THEN probe.ret = <<>> /\ store[s].items = probe.existing
        ELSE /\ \A i \in 1..Len(probe.existing) :
                   \E j \in 1..Len(store[s].items) :
                      KeyOf(store[s].items[j]) = KeyOf(probe.existing[i])
             /\ \A i \in 1..Len(probe.allItems) :
                   \E j \in 1..Len(store[s].items) :
                      store[s].items[j] = LastPositiveAt(probe.allItems, KeyOf(probe.allItems[i]))
             /\ probe.ret = ResampleTo10Minutes(store[s].items)

C33_PageBound == probe.requests <= MaxPages

\* C39 (as claimed): chart buffer retention: when the chart timer's backfill
\* call collected no item, the buffer holds after the refresh every point it
\* held before.
C39_ChartBufferRetention ==
    (probe.timer = "set" /\ probe.allItems = <<>>) =>
        \A i \in 1..Len(probe.bufferBefore) :
            \E j \in 1..Len(probe.buffer) : probe.buffer[j] = probe.bufferBefore[i]

BasePriceFields == {"", "0", "71500"}

\* parseFloat(field) || 0
ParseFloatOrZero(field) == IF field = "71500" THEN 71500 ELSE 0

\* the answers to the query: fetch throws, not ok with msg_cd EGW00123, not
\* ok with another code, ok with the output
PriceAnswers ==
    {[kind |-> k, basePrice |-> ""] : k \in {"throws", "expired", "notOk"}}
        \cup {[kind |-> "ok", basePrice |-> f] : f \in BasePriceFields}

priceFrame == <<now, queueVars, tokenPromise, issueMode, issueResp, issueResult, callMode,
                callState, callJoined, callResult, otherWrites, issueError,
                todayIdx, hourNow, forced, wsVars>>

\* lines 125 and 158: fetchCurrentPrice entered; getKisAccessToken without
\* forceRefresh returns the stored credential at once, or starts an issuance
EnterPrice(p, a) ==
    IF a[p.mode] # NoAuth /\ now - a[p.mode].tokenTime < TokenValidityMs
    THEN [p EXCEPT !.state = "query", !.token = a[p.mode].token]
    ELSE [p EXCEPT !.state = "issue"]

\* the issuance of getKisAccessToken answered (lines 71-86), for the token of
\* line 125 (state issue) or the forced one of line 157 (state refresh)
PriceIssuanceAnswer(kind) ==
    /\ probe.state \in {"issue", "refresh"}
    /\ LET m == probe.mode
           fresh == probe.issued + 1
           absorbed == ResponseOf(kind).code = QuotaCode /\ auth[m] # NoAuth
           token == IF kind = "issued" THEN fresh
                    ELSE IF absorbed THEN auth[m].token ELSE Threw
           p == [probe EXCEPT !.issued = IF kind = "issued" THEN fresh ELSE @,
                              !.lastIssuance = kind]
       IN  /\ auth' = IF kind = "issued"
                      THEN [auth EXCEPT ![m] = [token |-> fresh, tokenTime |-> now]]
                      ELSE auth
           /\ probe' = IF token = Threw THEN [p EXCEPT !.state = "threw"]
                       ELSE IF probe.state = "issue"
                       THEN [p EXCEPT !.state = "query", !.token = token]
                       ELSE EnterPrice(p, auth')
    /\ UNCHANGED <<store, lastOp, priceFrame>>

\* lines 136-193: the query answered
PriceQueryAnswer(s, a) ==
    /\ probe.state = "query"
    /\ probe.symbol = s
    /\ LET p == [probe EXCEPT !.queries = @ + 1, !.used = Append(@, probe.token)] IN
       CASE a.kind = "expired" ->
               /\ p.queries < MaxPriceQueries
               /\ probe' = [p EXCEPT !.state = "refresh"]
               /\ UNCHANGED <<store, lastOp>>
         [] a.kind \in {"throws", "notOk"} ->
               /\ probe' = [p EXCEPT !.state = "threw"]
               /\ UNCHANGED <<store, lastOp>>
         [] a.kind = "ok" ->
               LET basePrice == ParseFloatOrZero(a.basePrice) IN
               /\ probe' = [p EXCEPT !.state = "returned", !.ret = basePrice]
               /\ IF basePrice = 0 THEN UNCHANGED <<store, lastOp>>
                  ELSE /\ store' = [store EXCEPT ![s] =
                                       IF store[s].present
                                       THEN [store[s] EXCEPT !.basePrice = basePrice,
                                                             !.lastUpdated = Today]
                                       ELSE [NoEntry EXCEPT !.present = TRUE,
                                                            !.lastUpdated = Today,
                                                            !.basePrice = basePrice]]
                       /\ lastOp' = [NoOp EXCEPT !.op = "base", !.sym = s]
    /\ UNCHANGED <<auth, priceFrame>>

InitPrice ==
    /\ now = 0
    /\ InitQueue
    /\ minIntervalMs = PaperIntervalMs
    /\ tokenPromise = [m \in Modes |-> NoTask]
    /\ auth \in [Modes -> {NoAuth, [token |-> StoredToken, tokenTime |-> 0]}]
    /\ issueMode = [t \in Tasks |-> "none"]
    /\ issueResp = [t \in Tasks |-> "none"]
    /\ issueResult = [t \in Tasks |-> Pending]
    /\ callMode = [c \in Calls |-> "none"]
    /\ callState = [c \in Calls |-> "none"]
    /\ callJoined = [c \in Calls |-> NoTask]
    /\ callResult = [c \in Calls |-> Pending]
    /\ otherWrites = 0
    /\ issueError = [t \in Tasks |-> NoError]
    /\ store = [s \in CacheSymbols |-> NoEntry]
    /\ todayIdx = 1
    /\ hourNow \in HourNows
    /\ lastOp = NoOp
    /\ forced = [s \in CacheSymbols |-> 0]
    /\ WsAtRest
    /\ \E m \in Modes, s \in CacheSymbols :
          probe = EnterPrice([state |-> "entered", mode |-> m, symbol |-> s, token |-> Pending,
                              queries |-> 0, issued |-> 0, used |-> <<>>,
                              lastIssuance |-> "none", ret |-> 0], auth)

NextPrice ==
    \/ \E kind \in ResponseKinds : PriceIssuanceAnswer(kind)
    \/ \E s \in CacheSymbols, a \in PriceAnswers : PriceQueryAnswer(s, a)

SpecPrice == InitPrice /\ [][NextPrice]_vars

\* C32 (as claimed): one call sends the query at most twice, the first time
\* and one retry after a forced token re-issuance, whatever the provider
\* answers.
C32_RetryAtMostOnce == probe.queries <= 2

(***************************************************************************)
(* market.ts: getMarketStatus as a function of the instant and of the      *)
(* time zone of the machine.  Time is in minutes from a Sunday 00:00 UTC;  *)
(* getTimezoneOffset is UTC minus local time, in minutes.                   *)
(***************************************************************************)
WeekMinutes == 10080
DayMinutes == 1440
KstOffsetMinutes == 540

\* minutes of the day around the edges of the windows
ClockMinutes == {0, 479, 480, 529, 530, 539, 540, 929, 930, 1199, 1200, 1439}
TimezoneOffsets == {-540, 0, 300}

\* the instant at which the exchange's clock shows weekday d, minute m
InstantOf(d, m) == ((d * DayMinutes) + m - KstOffsetMinutes) % WeekMinutes

\* line 29: timeNum >= 900 && timeNum < 1530
MutRegularThroughClose(timeNum) == timeNum >= 900 /\ timeNum <= 1530
InRegular(timeNum) == timeNum >= 900 /\ timeNum < 1530

\* lines 11-35; getDay, getHours and getMinutes give the fields, in the
\* machine's zone, of the instant kstDate
GetMarketStatus(instant, timezoneOffset) ==
    LET kstDate == instant + timezoneOffset + KstOffsetMinutes
        shown == (kstDate - timezoneOffset) % WeekMinutes
        day == shown \div DayMinutes
        hours == (shown % DayMinutes) \div 60
        minutes == shown % 60
        timeNum == (hours * 100) + minutes
    IN  IF day = 0 \/ day = 6 THEN "CLOSED"
        ELSE IF timeNum >= 800 /\ timeNum < 850 THEN "NXT"
        ELSE IF InRegular(timeNum) THEN "REGULAR"
        ELSE IF timeNum >= 1530 /\ timeNum < 2000 THEN "NXT"
        ELSE "CLOSED"

MarketStatusCall ==
    /\ probe.state = "given"
    /\ probe' = [probe EXCEPT !.state = "asked",
                              !.result = GetMarketStatus(InstantOf(probe.day, probe.minute),
                                                         probe.timezoneOffset)]
    /\ UNCHANGED <<store, todayIdx, hourNow, lastOp, forced, outsideCache>>

InitClock ==
    /\ now = 0
    /\ InitQueue
    /\ minIntervalMs = PaperIntervalMs
    /\ TokenAtRest
    /\ WsAtRest
    /\ store = [s \in CacheSymbols |-> NoEntry]
    /\ todayIdx = 1
    /\ hourNow = 90000
    /\ lastOp = NoOp
    /\ forced = [s \in CacheSymbols |-> 0]
    /\ \E d \in 0..6, m \in ClockMinutes, o \in TimezoneOffsets :
          probe = [state |-> "given", day |-> d, minute |-> m, timezoneOffset |-> o,
                   result |-> ""]

NextClock == MarketStatusCall

SpecClock == InitClock /\ [][NextClock]_vars

\* C25: the session state is decided by the weekday and the minute of the day
\* on the exchange's clock alone: Saturday and Sunday are CLOSED at every
\* time; on the other days 09:00 up to 15:29 is REGULAR, 15:30 up to 19:59 and
\* 08:00 up to 08:49 are EXTENDED (NXT in the code), and every other minute,
\* 08:59 among them, is CLOSED.
C25_SessionClock ==
    probe.state = "asked" =>
        probe.result =
            (IF probe.day \in {0, 6} THEN "CLOSED"
             ELSE IF 480 <= probe.minute /\ probe.minute < 530 THEN "NXT"
             ELSE IF 540 <= probe.minute /\ probe.minute < 930 THEN "REGULAR"
             ELSE IF 930 <= probe.minute /\ probe.minute < 1200 THEN "NXT"
             ELSE "CLOSED")

\* 15:30 on a Monday, asked on a machine five hours west of UTC: EXTENDED
C25_Witness ==
    /\ probe.state = "asked"
    /\ probe.day = 1
    /\ probe.minute = 930
    /\ probe.timezoneOffset = 300
    /\ probe.result = "NXT"

\* the keys (date, hour) of the points of an entry
KeysOfEntry(e) == {KeyOf(e.items[i]) : i \in 1..Len(e.items)}

BoolStr(b) == IF b THEN "true" ELSE "false"

\* line 325: `${config.isVirtual}-${appKey}-${appSecret}-${config.kisEnabled}`
Signature(c) ==
    BoolStr(c.isVirtual) \o "-" \o c.appKey \o "-" \o c.appSecret \o "-"
        \o BoolStr(c.kisEnabled)

\* the settings the signature is computed from
Fingerprint(c) == <<c.isVirtual, c.appKey, c.appSecret, c.kisEnabled>>

\* line 328: if (lastSignature && lastSignature !== currentConfigSignature)
ConfigChanged(last, current) == last # "" /\ last # current

HasKeys(c) == c.appKey # "" /\ c.appSecret # ""
KeysOf(c) == [isVirtual |-> c.isVirtual, appKey |-> c.appKey, appSecret |-> c.appSecret]

\* Date.now() - lastUpdate, gap milliseconds later
AgeCapMs == StaleAfterMs + TickMs
Aged(a, gap) ==
    IF a = NoUpdate THEN NoUpdate
    ELSE IF a + gap > AgeCapMs THEN AgeCapMs ELSE a + gap

\* the ages the model follows: just updated, or at the threshold and beyond
TrackedAge(a) == a = NoUpdate \/ a <= FreshDetailMs \/ a >= StaleAfterMs

\* lines 346-347, 384: timeSinceLastUpdate > 30 * 1000, with get(symbol) || 0
MutStaleFromThreshold(a) == a = NoUpdate \/ a >= StaleAfterMs
OlderThanThreshold(a) == a = NoUpdate \/ a > StaleAfterMs
ShouldTryFallback(c, a) == c.yahoo /\ (OlderThanThreshold(a) \/ ~c.kisEnabled)

\* line 387: if (!fallbackTimersRef.current.has(symbol))
MutStartsFallbackAgain(t) == TRUE
StartsFallback(t) == t = "none"

\* lines 215 and 308: subscribedRefs.current.clear()
MutNotCleared(S) == S
AfterClear(S) == {}

\* lines 391 and 427: the source a fallback timer started now polls
MutSourceByFlagOnly(c) == IF c.kisEnabled THEN "rest" ELSE "yahoo"
FallbackSource(c) == IF c.kisEnabled /\ HasKeys(c) THEN "rest" ELSE "yahoo"

\* WebSocket.close(): a no-op on a socket that is closing or closed
CloseSocket(sk, i) ==
    IF sk[i] \in {"connecting", "open"} THEN [sk EXCEPT ![i] = "closing"] ELSE sk

\* lines 339, 565: which socket the tick asks to close
MutCloseNothing(ref) == {}
SocketsToClose(ref) == IF ref # NoSocket THEN {ref} ELSE {}

CloseAll(sk, S) ==
    [i \in Sockets |-> IF i \in S /\ sk[i] \in {"connecting", "open"} THEN "closing"
                       ELSE sk[i]]

Live(i) == sock[i] \in {"connecting", "open"}

\* CONNECTED: the socket of wsRef is open
Connected == wsRef # NoSocket /\ sock[wsRef] = "open"
HasFreeSocket == \E i \in Sockets : sock[i] = "unused"
FreeSocket == CHOOSE i \in Sockets : sock[i] = "unused" /\ \A j \in Sockets : sock[j] = "unused" => i <= j
RunningTimers ==
    {<<"fallback", s>> : s \in {x \in WsSymbols : fbRunning[x] > 0}}
        \cup {<<"chart", s>> : s \in {x \in WsSymbols : chRunning[x] > 0}}
MappedTimers ==
    {<<"fallback", s>> : s \in {x \in WsSymbols : fallbackTimersRef[x] # "none"}}
        \cup {<<"chart", s>> : s \in {x \in WsSymbols : chartTimersRef[x]}}

\* market.ts, line 42
IsIndexSymbol(s) == s \in {"0001", "1001", "2001"}

\* lines 475-481 and 548-555: the tr_id of the messages for a symbol
MutOnlyKrx(s) == IF IsIndexSymbol(s) THEN {"H0STCNI0"} ELSE {"H0STCNT0"}
TrIds(s) == IF IsIndexSymbol(s) THEN {"H0STCNI0"} ELSE {"H0STCNT0", "H0NXCNT0"}

\* getKisWsSubscriptionMessage (kisApi.ts, lines 282-297) for each symbol of S
SubscriptionMessages(S, isSubscribe) ==
    UNION {{[tr_type |-> IF isSubscribe THEN "1" ELSE "2", tr_id |-> id, tr_key |-> s] :
               id \in TrIds(s)} : s \in S}

\* line 471: config.kisEnabled && wsRef.current?.readyState === OPEN &&
\* approvalKeyRef.current
CanSync(c, sk, approval) ==
    /\ c.kisEnabled
    /\ wsRef # NoSocket
    /\ sk[wsRef] = "open"
    /\ approval # NoApprovalKey

\* lines 561-563 with the guard of connectWs (line 188)
WantConnect(c, sk, approval) ==
    /\ ~CanSync(c, sk, approval)
    /\ c.kisEnabled /\ c.activeSymbols # {}
    /\ ~isConnectingRef /\ wsRef = NoSocket

\* lines 564-566
WantClose(c, sk, approval) ==
    /\ ~CanSync(c, sk, approval) /\ ~WantConnect(c, sk, approval)
    /\ (~c.kisEnabled \/ c.activeSymbols = {})
    /\ wsRef # NoSocket

\* syncSubscriptions (lines 318-568), run by the interval of line 570 gap
\* milliseconds after the previous run, with the part of connectWs that runs
\* before its first await (lines 187-208) when line 563 calls it
Tick(gap) ==
    LET c == cfg
        active == c.activeSymbols
        age == [s \in WsSymbols |-> Aged(timeSinceLastUpdate[s], gap)]
        \* lines 323-341
        reset == ConfigChanged(lastSignature, Signature(c))
        approval1 == IF reset THEN NoApprovalKey ELSE approvalKeyRef
        fb1 == IF reset THEN [s \in WsSymbols |-> "none"] ELSE fallbackTimersRef
        ch1 == IF reset THEN [s \in WsSymbols |-> FALSE] ELSE chartTimersRef
        fbRun1 == [s \in WsSymbols |->
                     IF reset /\ fallbackTimersRef[s] # "none" THEN fbRunning[s] - 1
                     ELSE fbRunning[s]]
        chRun1 == [s \in WsSymbols |->
                     IF reset /\ chartTimersRef[s] THEN chRunning[s] - 1
                     ELSE chRunning[s]]
        sock1 == IF reset THEN CloseAll(sock, SocketsToClose(wsRef)) ELSE sock
        \* lines 350-380 and 464-469: chart timers
        wantChart == c.kisEnabled /\ HasKeys(c)
        ch2 == [s \in WsSymbols |-> s \in active /\ wantChart]
        chRun2 == [s \in WsSymbols |->
                     chRun1[s] + (IF ch2[s] /\ ~ch1[s] THEN 1 ELSE 0)
                               - (IF ~ch2[s] /\ ch1[s] THEN 1 ELSE 0)]
        \* lines 383-455 and 458-463: fallback timers
        wantFb == {s \in active : ShouldTryFallback(c, age[s])}
        starts == {s \in wantFb : StartsFallback(fb1[s])}
        kind == FallbackSource(c)
        fb2 == [s \in WsSymbols |->
                  IF s \in starts THEN kind
                  ELSE IF s \in wantFb THEN fb1[s] ELSE "none"]
        fbRun2 == [s \in WsSymbols |->
                     fbRun1[s] + (IF s \in starts THEN 1 ELSE 0)
                               - (IF s \notin wantFb /\ fb1[s] # "none" THEN 1 ELSE 0)]
        \* lines 471-567
        canSync == CanSync(c, sock1, approval1)
        wantConnect == WantConnect(c, sock1, approval1)
        wantClose == WantClose(c, sock1, approval1)
        \* connectWs up to its first await
        begins == wantConnect /\ HasKeys(c)
        sock2 == IF begins
                 THEN [sock1 EXCEPT ![FreeSocket] =
                          IF approval1 = NoApprovalKey THEN "awaitKey" ELSE "connecting"]
                 ELSE IF wantClose THEN CloseAll(sock1, SocketsToClose(wsRef))
                 ELSE sock1
    IN
    /\ \A s \in WsSymbols : TrackedAge(age[s])
    /\ begins => HasFreeSocket
    /\ lastSignature' = Signature(c)
    /\ approvalKeyRef' = approval1
    /\ chartTimersRef' = ch2
    /\ chRunning' = chRun2
    /\ fallbackTimersRef' = fb2
    /\ fbRunning' = fbRun2
    /\ sock' = sock2
    /\ sockFor' = IF begins THEN [sockFor EXCEPT ![FreeSocket] = KeysOf(c)] ELSE sockFor
    /\ isConnectingRef' = (isConnectingRef \/ begins)
    /\ subscribedRefs' = IF canSync THEN active ELSE subscribedRefs
    /\ timeSinceLastUpdate' =
          [s \in WsSymbols |->
              IF canSync /\ s \in active \ subscribedRefs THEN 0
              ELSE IF canSync /\ s \in subscribedRefs \ active THEN NoUpdate
              ELSE age[s]]
    /\ framed' = {}
    /\ prevFingerprint' = Fingerprint(c)
    /\ keyAtDisconnect' = (keyAtDisconnect /\ ~reset)
    /\ addedLive' = {}
    /\ lastTick' = [ran |-> TRUE,
                    changed |-> (prevFingerprint # NoFingerprint
                                 /\ prevFingerprint # Fingerprint(c)),
                    reset |-> reset,
                    kisEnabled |-> c.kisEnabled,
                    stale |-> {s \in active : c.yahoo /\ OlderThanThreshold(age[s])},
                    started |-> starts,
                    owed |-> framed,
                    fresh |-> {s \in WsSymbols : age[s] # NoUpdate /\ age[s] <= StaleAfterMs},
                    timersBefore |-> RunningTimers,
                    resetCleared |-> IF reset THEN MappedTimers ELSE {},
                    liveBefore |-> {i \in Sockets : Live(i)},
                    approvalBefore |-> (approvalKeyRef # NoApprovalKey),
                    canSync |-> canSync,
                    subscribedBefore |-> subscribedRefs,
                    sent |-> IF canSync
                             THEN SubscriptionMessages(active \ subscribedRefs, TRUE)
                                     \cup SubscriptionMessages(subscribedRefs \ active, FALSE)
                             ELSE {},
                    addedLive |-> addedLive]
    /\ sentOn' = [s \in WsSymbols |->
                     IF ~canSync THEN sentOn[s]
                     ELSE IF s \notin active THEN NoSocket
                     ELSE IF s \in subscribedRefs THEN sentOn[s] ELSE wsRef]
    /\ lastMessage' = NoMessage
    /\ UNCHANGED <<cfg, cfgChanges, wsRef, outsideWs>>

\* connectWs after the await of lines 203-207: the approval key arrives
ApprovalKeyArrives(i) ==
    /\ sock[i] = "awaitKey"
    /\ approvalKeyRef' = sockFor[i]
    /\ sock' = [sock EXCEPT ![i] = "connecting"]
    /\ keyAtDisconnect' = FALSE
    /\ lastMessage' = NoMessage
    /\ lastTick' = NoTick
    /\ UNCHANGED <<cfg, cfgChanges, lastSignature, wsRef, subscribedRefs, isConnectingRef,
                   fallbackTimersRef, chartTimersRef, timeSinceLastUpdate, sockFor,
                   fbRunning, chRunning, framed, prevFingerprint, addedLive, sentOn, outsideWs>>

\* connectWs, lines 311-315: the approval key request throws
ApprovalKeyFails(i) ==
    /\ sock[i] = "awaitKey"
    /\ isConnectingRef' = FALSE
    /\ approvalKeyRef' = NoApprovalKey
    /\ sock' = [sock EXCEPT ![i] = "closed"]
    /\ sockFor' = [sockFor EXCEPT ![i] = NoApprovalKey]
    /\ keyAtDisconnect' = FALSE
    /\ lastMessage' = NoMessage
    /\ lastTick' = NoTick
    /\ UNCHANGED <<cfg, cfgChanges, lastSignature, wsRef, subscribedRefs,
                   fallbackTimersRef, chartTimersRef, timeSinceLastUpdate,
                   fbRunning, chRunning, framed, prevFingerprint, addedLive, sentOn, outsideWs>>

\* socket.onopen, lines 212-216
SocketOpen(i) ==
    /\ sock[i] = "connecting"
    /\ sock' = [sock EXCEPT ![i] = "open"]
    /\ wsRef' = i
    /\ isConnectingRef' = FALSE
    /\ subscribedRefs' = AfterClear(subscribedRefs)
    /\ sentOn' = [s \in WsSymbols |->
                     IF s \in AfterClear(subscribedRefs) THEN sentOn[s] ELSE NoSocket]
    /\ lastMessage' = NoMessage
    /\ lastTick' = NoTick
    /\ UNCHANGED <<cfg, cfgChanges, lastSignature, approvalKeyRef, fallbackTimersRef,
                   chartTimersRef, timeSinceLastUpdate, sockFor, fbRunning, chRunning,
                   framed, prevFingerprint, keyAtDisconnect,
                   addedLive, outsideWs>>

\* socket.onerror, lines 301-303: the connection failed; its close event follows
SocketError(i) ==
    /\ sock[i] \in {"connecting", "open", "closing"}
    /\ sock' = [sock EXCEPT ![i] = "failed"]
    /\ isConnectingRef' = FALSE
    /\ keyAtDisconnect' = (keyAtDisconnect \/ (sock[i] = "open" /\ approvalKeyRef # NoApprovalKey))
    /\ lastMessage' = NoMessage
    /\ lastTick' = NoTick
    /\ UNCHANGED <<cfg, cfgChanges, lastSignature, wsRef, approvalKeyRef, subscribedRefs,
                   fallbackTimersRef, chartTimersRef, timeSinceLastUpdate, sockFor,
                   fbRunning, chRunning, framed, prevFingerprint, addedLive, sentOn, outsideWs>>

\* socket.onclose, lines 305-309: after a failure, after close(), or closed by
\* the server
SocketClose(i) ==
    /\ sock[i] \in {"failed", "closing", "open"}
    /\ sock' = [sock EXCEPT ![i] = "closed"]
    /\ sockFor' = [sockFor EXCEPT ![i] = NoApprovalKey]
    /\ wsRef' = NoSocket
    /\ isConnectingRef' = FALSE
    /\ subscribedRefs' = AfterClear(subscribedRefs)
    /\ keyAtDisconnect' = (keyAtDisconnect \/ (sock[i] = "open" /\ approvalKeyRef # NoApprovalKey))
    /\ sentOn' = [s \in WsSymbols |->
                     IF s \in AfterClear(subscribedRefs) THEN sentOn[s] ELSE NoSocket]
    /\ lastMessage' = NoMessage
    /\ lastTick' = NoTick
    /\ UNCHANGED <<cfg, cfgChanges, lastSignature, approvalKeyRef, fallbackTimersRef,
                   chartTimersRef, timeSinceLastUpdate, fbRunning, chRunning,
                   framed, prevFingerprint, addedLive, outsideWs>>

\* socket.onmessage with a data frame of a subscribed symbol, lines 218-237
Frame(i, s) ==
    /\ sock[i] = "open"
    /\ wsRef = i
    /\ s \in subscribedRefs
    /\ timeSinceLastUpdate' = [timeSinceLastUpdate EXCEPT ![s] = 0]
    /\ framed' = IF fbRunning[s] > 0 THEN framed \cup {s} ELSE framed
    /\ lastMessage' = [errors |-> {}, chartWrites |-> {s}]
    /\ lastTick' = NoTick
    /\ UNCHANGED <<cfg, cfgChanges, lastSignature, wsRef, approvalKeyRef, subscribedRefs,
                   isConnectingRef, fallbackTimersRef, chartTimersRef, sock, sockFor,
                   fbRunning, chRunning, prevFingerprint, keyAtDisconnect,
                   addedLive, sentOn, outsideWs>>

\* the frames that are neither a keep-alive nor a data frame and parse as
\* JSON: header.tr_key ("" when absent), header.tr_id, body.msg1, body.msg_cd
\* and body.rt_cd
ControlFrames ==
    [tr_key : WsSymbols \cup {""}, tr_id : {"H0STCNT0", "H0STCNI0", "H0NXCNT0"},
     msg1 : {"", "ALREADY IN SUBSCRIBE"}, msg_cd : {"MCA00000", "OPSP0002"},
     rt_cd : {"0", "1"}]

\* lines 286 and 289: the frame reports a rejection
Rejects(f) == f.msg1 # "" /\ f.msg_cd # "MCA00000" /\ f.rt_cd # "0"

\* line 291: s && (trId === "H0STCNT0" || trId === "H0STCNI0")
MutAnyTrId(f) == f.tr_key # ""
ForKrxOrIndex(f) == f.tr_key # "" /\ f.tr_id \in {"H0STCNT0", "H0STCNI0"}

\* socket.onmessage with a control frame, lines 283-297
ControlFrame(i, f) ==
    /\ sock[i] = "open"
    /\ lastMessage' = [errors |-> IF Rejects(f) /\ ForKrxOrIndex(f) THEN {f.tr_key} ELSE {},
                       chartWrites |-> {}]
    /\ lastTick' = NoTick
    /\ UNCHANGED <<cfg, cfgChanges, lastSignature, wsRef, approvalKeyRef, subscribedRefs,
                   isConnectingRef, fallbackTimersRef, chartTimersRef, timeSinceLastUpdate,
                   sock, sockFor, fbRunning, chRunning, framed, prevFingerprint,
                   keyAtDisconnect, addedLive, sentOn, outsideWs>>

\* a REST answer to the chart timer (line 359) or to the REST fallback timer
\* (line 413)
RestUpdate(s) ==
    /\ chRunning[s] > 0 \/ (fbRunning[s] > 0 /\ fallbackTimersRef[s] = "rest")
    /\ timeSinceLastUpdate[s] # 0
    /\ timeSinceLastUpdate' = [timeSinceLastUpdate EXCEPT ![s] = 0]
    /\ lastMessage' = NoMessage
    /\ lastTick' = NoTick
    /\ UNCHANGED <<cfg, cfgChanges, lastSignature, wsRef, approvalKeyRef, subscribedRefs,
                   isConnectingRef, fallbackTimersRef, chartTimersRef, sock, sockFor,
                   fbRunning, chRunning, framed, prevFingerprint, keyAtDisconnect,
                   addedLive, sentOn, outsideWs>>

\* the settings window saves a change (Config in localStorage)
SaveConfig(c) ==
    /\ cfgChanges < MaxConfigChanges
    /\ c # cfg
    /\ cfg' = c
    /\ cfgChanges' = cfgChanges + 1
    /\ addedLive' = (IF Connected
                     THEN addedLive \cup (c.activeSymbols \ cfg.activeSymbols)
                     ELSE addedLive) \cap c.activeSymbols
    /\ lastMessage' = NoMessage
    /\ lastTick' = NoTick
    /\ UNCHANGED <<lastSignature, wsRef, approvalKeyRef, subscribedRefs, isConnectingRef,
                   fallbackTimersRef, chartTimersRef, timeSinceLastUpdate, sock, sockFor,
                   fbRunning, chRunning, framed, prevFingerprint, keyAtDisconnect,
                   sentOn, outsideWs>>

SetKisEnabled == SaveConfig([cfg EXCEPT !.kisEnabled = ~@])
SetYahooEnabled == SaveConfig([cfg EXCEPT !.yahoo = ~@])
SetVirtual == SaveConfig([cfg EXCEPT !.isVirtual = ~@])
SetKeys(k) == SaveConfig([cfg EXCEPT !.appKey = k.appKey, !.appSecret = k.appSecret])
SetActiveSymbols(A) == SaveConfig([cfg EXCEPT !.activeSymbols = A])

TickGaps == {TickMs, StaleAfterMs, LateTickMs}

InitW ==
    /\ now = 0
    /\ InitQueue
    /\ minIntervalMs = PaperIntervalMs
    /\ TokenAtRest
    /\ CacheAtRest
    /\ WsAtRest

NextW ==
    \/ \E gap \in TickGaps : Tick(gap)
    \/ \E i \in Sockets : ApprovalKeyArrives(i)
    \/ \E i \in Sockets : ApprovalKeyFails(i)
    \/ \E i \in Sockets : SocketOpen(i)
    \/ \E i \in Sockets : SocketError(i)
    \/ \E i \in Sockets : SocketClose(i)
    \/ \E i \in Sockets, s \in WsSymbols : Frame(i, s)
    \/ \E s \in WsSymbols : RestUpdate(s)
    \/ SetKisEnabled
    \/ SetYahooEnabled
    \/ SetVirtual
    \/ \E k \in Credentials : SetKeys(k)
    \/ \E A \in SUBSET OrdinarySymbols : SetActiveSymbols(A)

SpecWs == InitW /\ [][NextW]_vars

\* the manager with an ordinary instrument and an index, the secondary
\* provider switched off
InitS ==
    /\ now = 0
    /\ InitQueue
    /\ minIntervalMs = PaperIntervalMs
    /\ TokenAtRest
    /\ CacheAtRest
    /\ WsRefsAtRest
    /\ \E A \in SUBSET WsSymbols :
          cfg = [InitialConfig EXCEPT !.yahoo = FALSE, !.activeSymbols = A]

NextS ==
    \/ \E gap \in TickGaps : Tick(gap)
    \/ \E i \in Sockets : ApprovalKeyArrives(i)
    \/ \E i \in Sockets : SocketOpen(i)
    \/ \E i \in Sockets : SocketError(i)
    \/ \E i \in Sockets : SocketClose(i)
    \/ \E i \in Sockets, s \in WsSymbols : Frame(i, s)
    \/ SetVirtual
    \/ \E A \in SUBSET WsSymbols : SetActiveSymbols(A)

SpecSub == InitS /\ [][NextS]_vars

\* the manager with an ordinary instrument and an index, its settings left
\* alone, and the control frames of its sockets
InitCtl ==
    /\ now = 0
    /\ InitQueue
    /\ minIntervalMs = PaperIntervalMs
    /\ TokenAtRest
    /\ CacheAtRest
    /\ WsRefsAtRest
    /\ cfg = [InitialConfig EXCEPT !.activeSymbols = WsSymbols]

NextCtl ==
    \/ \E gap \in TickGaps : Tick(gap)
    \/ \E i \in Sockets : ApprovalKeyArrives(i)
    \/ \E i \in Sockets : SocketOpen(i)
    \/ \E i \in Sockets : SocketClose(i)
    \/ \E i \in Sockets, s \in WsSymbols : Frame(i, s)
    \/ \E s \in WsSymbols : RestUpdate(s)
    \/ \E i \in Sockets, f \in ControlFrames : ControlFrame(i, f)

SpecCtl == InitCtl /\ [][NextCtl]_vars

(***************************************************************************)
(* Claims about WsManager                                                  *)
(***************************************************************************)
\* C4: at most one streaming connection is CONNECTING or CONNECTED at a time,
\* whatever the order of ticks and of the sockets' open, error and close events.
C4_ConnectionUnique == Cardinality({i \in Sockets : Live(i)}) <= 1

\* C8: no symbol ever has more than one running fallback timer, and after a
\* tick every active symbol whose last update was older than 30 s at that tick,
\* with the secondary provider enabled, has a running fallback timer.
C8_FailoverStart ==
    /\ \A s \in WsSymbols : fbRunning[s] <= 1
    /\ lastTick.ran =>
          \A s \in lastTick.stale : fallbackTimersRef[s] # "none" /\ fbRunning[s] = 1

\* a tick started the fallback timer of a symbol that had been updated and
\* then went without an update for more than 30 s
C8_Witness ==
    /\ lastTick.ran
    /\ \E s \in lastTick.stale \cap lastTick.started :
          /\ timeSinceLastUpdate[s] = AgeCapMs
          /\ fbRunning[s] = 1

C10_HardReset ==
    lastTick.ran =>
        /\ lastTick.changed =>
              /\ lastTick.reset
              /\ lastTick.timersBefore \subseteq lastTick.resetCleared
              /\ approvalKeyRef = NoApprovalKey
              /\ \A i \in lastTick.liveBefore : sock[i] = "closing"
        /\ ~lastTick.changed => ~lastTick.reset

\* C11: after an open socket's error or close event, the tick that makes the
\* next connection attempt does not open the socket with the approval key held
\* at that event: a socket created by a tick while that key is still held has
\* first awaited a newly issued key.
C11_KeyReissued ==
    (lastTick.ran /\ keyAtDisconnect) =>
        \A i \in Sockets : sock[i] = "connecting" => i \in lastTick.liveBefore

\* the integration is enabled with credentials and there is a symbol to stream
Healthy == cfg.kisEnabled /\ HasKeys(cfg) /\ cfg.activeSymbols # {}

\* CONNECTED with every active symbol subscribed
Healed ==
    /\ wsRef # NoSocket
    /\ sock[wsRef] = "open"
    /\ cfg.activeSymbols \subseteq subscribedRefs

\* a request or a socket event is still to come from the network
PendingEvent == \E i \in Sockets : sock[i] \in {"awaitKey", "connecting", "closing", "failed"}

\* C12: with the integration enabled with credentials, an active symbol, the
\* settings as the last tick read them and no network event outstanding, the
\* manager is CONNECTED with every active symbol subscribed, or the next tick
\* subscribes or starts a connection attempt: no state is a dead end for ticks.
C12_SelfHealing ==
    (Healthy /\ lastSignature = Signature(cfg) /\ ~PendingEvent) =>
        \/ Healed
        \/ CanSync(cfg, sock, approvalKeyRef)
        \/ WantConnect(cfg, sock, approvalKeyRef)

\* C17: the interval of the request queue is 600 ms while the trading mode is
\* paper and 100 ms while it is live, also after the mode is changed in the
\* settings.
C17_PerModeInterval ==
    minIntervalMs = (IF cfg.isVirtual THEN PaperIntervalMs ELSE LiveIntervalMs)

\* the messages of the last tick for symbol s, subscribe or unsubscribe
SentFor(s, isSubscribe) ==
    {m \in lastTick.sent :
        m.tr_key = s /\ m.tr_type = (IF isSubscribe THEN "1" ELSE "2")}
MessagesOwed(s) == IF IsIndexSymbol(s) THEN 1 ELSE 2

\* what the last tick did to the subscriptions: two subscribe messages for
\* each ordinary instrument and one for each index that was active and not
\* tracked, as many unsubscribe messages for each symbol tracked and no longer
\* active, no other message, and the tracked set equal to the active set
Reconciled ==
    LET added == cfg.activeSymbols \ lastTick.subscribedBefore
        removed == lastTick.subscribedBefore \ cfg.activeSymbols
    IN  /\ \A s \in WsSymbols :
              /\ Cardinality(SentFor(s, TRUE)) = (IF s \in added THEN MessagesOwed(s) ELSE 0)
              /\ Cardinality(SentFor(s, FALSE)) = (IF s \in removed THEN MessagesOwed(s) ELSE 0)
        /\ subscribedRefs = cfg.activeSymbols

\* the tracked set changed in this step together with messages for exactly
\* the symbols that entered or left it
ChangedWithMessages ==
    /\ lastTick'.ran
    /\ {m.tr_key : m \in lastTick'.sent} =
          (subscribedRefs' \ subscribedRefs) \cup (subscribedRefs \ subscribedRefs')

SocketClosed == \E i \in Sockets : sock[i] # "closed" /\ sock'[i] = "closed"
SocketOpened == \E i \in Sockets : sock[i] = "connecting" /\ sock'[i] = "open"

C19_WarmUpSuppression ==
    (lastTick.ran /\ lastTick.canSync /\ cfg.yahoo) =>
        \A s \in lastTick.started :
            /\ s \notin lastTick.addedLive
            /\ s \notin lastTick.fresh

\* C20: after a tick, in any connection state, a symbol that is not in the
\* active set has no fallback timer, no chart timer and no last-update
\* timestamp, so that a symbol added again starts without a timestamp.
C20_SymbolTeardown ==
    lastTick.ran =>
        \A s \in WsSymbols \ cfg.activeSymbols :
            /\ fallbackTimersRef[s] = "none" /\ fbRunning[s] = 0
            /\ ~chartTimersRef[s] /\ chRunning[s] = 0
            /\ timeSinceLastUpdate[s] = NoUpdate


\* C26: whenever the manager tracks no socket the tracked subscribed set is
\* empty, and every symbol in the set had its subscribe messages sent on the
\* socket that is tracked now.
C26_SubscribedFollowsConnection ==
    /\ wsRef = NoSocket => subscribedRefs = {}
    /\ \A s \in subscribedRefs : sentOn[s] = wsRef /\ wsRef # NoSocket

\* after a reconnect both symbols are subscribed on the second socket
C26_Witness ==
    /\ wsRef = 2
    /\ sock[2] = "open"
    /\ sock[1] = "closed"
    /\ subscribedRefs = WsSymbols
    /\ \A s \in WsSymbols : sentOn[s] = 2

ControlFrameLeaves ==
    UNCHANGED <<wsRef, sock, sockFor, isConnectingRef, approvalKeyRef, subscribedRefs,
                fallbackTimersRef, chartTimersRef, fbRunning, chRunning,
                timeSinceLastUpdate, lastSignature, cfg>>

\* C28: a control frame that reports the rejection of a subscription of
\* symbol s makes the handler send one error event, for s, and write no chart
\* buffer; connection state, subscribed set, timers and last-update
\* timestamps stay as they were.
C28_RejectionIsolation ==
    [][\A i \in Sockets, f \in ControlFrames :
          (ControlFrame(i, f) /\ Rejects(f) /\ f.tr_key \in WsSymbols) =>
              /\ lastMessage'.errors = {f.tr_key}
              /\ lastMessage'.chartWrites = {}
              /\ ControlFrameLeaves]_vars

\* C28 as the code has it: the error event is sent when the rejected
\* subscription is the KRX one of an instrument or the one of an index; the
\* rejection of the NXT subscription of s, and a frame that reports no
\* rejection, make the handler send nothing; nothing else changes in any case.
C28_RejectionIsolationKrx ==
    [][\A i \in Sockets, f \in ControlFrames :
          ControlFrame(i, f) =>
              /\ lastMessage'.errors =
                    (IF f.rt_cd # "0" /\ f.msg_cd # "MCA00000" /\ f.msg1 # ""
                        /\ f.tr_key # "" /\ f.tr_id # "H0NXCNT0"
                     THEN {f.tr_key} ELSE {})
              /\ lastMessage'.chartWrites = {}
              /\ ControlFrameLeaves]_vars

\* CONNECTED with both symbols subscribed and the chart timer and timestamp
\* of the index in place, a rejection for the instrument has just been reported
C28_Witness ==
    /\ lastMessage.errors = {"005930"}
    /\ wsRef # NoSocket
    /\ sock[wsRef] = "open"
    /\ subscribedRefs = WsSymbols
    /\ chRunning["0001"] = 1
    /\ timeSinceLastUpdate["0001"] # NoUpdate

\* C37 (as claimed): idle close: with the integration enabled and the active
\* set empty, a CONNECTED manager whose last tick read these settings has
\* symbols left to unsubscribe, or its next tick closes the connection.
C37_IdleClose ==
    (/\ cfg.kisEnabled /\ cfg.activeSymbols = {}
     /\ Connected
     /\ lastSignature = Signature(cfg)
     /\ subscribedRefs = {}) =>
        WantClose(cfg, sock, approvalKeyRef)

\* C38 (as claimed): fallback persistence: a tick without a reset that finds
\* the secondary fallback enabled and a fallback timer running for an active
\* symbol, no data frame for the symbol having arrived while the timer ran
\* since the tick before, leaves the symbol with a fallback timer.
C38_FallbackPersistence ==
    \A s \in WsSymbols :
        (/\ lastTick.ran /\ ~lastTick.reset
         /\ cfg.yahoo /\ s \in cfg.activeSymbols
         /\ <<"fallback", s>> \in lastTick.timersBefore
         /\ s \notin lastTick.owed) =>
            fallbackTimersRef[s] # "none"


\* the approval key or endpoint k was obtained under settings whose signature
\* is the one of the settings now in force
UnderCurrentConfig(k) ==
    Signature([cfg EXCEPT !.isVirtual = k.isVirtual, !.appKey = k.appKey,
                          !.appSecret = k.appSecret]) = Signature(cfg)

\* C40: a tick that sends a subscribe message sends it with an approval key
\* obtained under the settings the tick read, on a socket opened to the
\* endpoint of those settings, also when the settings changed while a
\* connection attempt was awaiting its approval key or its handshake.
C40_NoStaleApprovalKey ==
    (lastTick.ran /\ \E m \in lastTick.sent : m.tr_type = "1") =>
        /\ UnderCurrentConfig(approvalKeyRef)
        /\ UnderCurrentConfig(sockFor[wsRef])

====
